---- MODULE Spec2Model ----
(***************************************************************************)
(* A model of the C API of PROJ (src/src/c_api.cpp): the operation factory *)
(* context and proj_obj_create_operations, proj_obj_identify,              *)
(* proj_obj_is_equivalent_to and proj_coordoperation_is_instanciable.      *)
(* The C functions are modelled from c_api.cpp.  The C++ engine they call  *)
(* (CoordinateOperationFactory::createOperations, CRS::identify,           *)
(* IComparable::isEquivalentTo, CoordinateOperation::isPROJInstanciable    *)
(* and gridsNeeded) is not part of c_api.cpp and is modelled from the      *)
(* written specification of the engine.                                    *)
(***************************************************************************)
EXTENDS Integers, Sequences, FiniteSets, TLC

VARIABLES
    dbOpenable,   \* environment: whether proj.db can be opened
    gridsAvail,   \* environment: the grids the grid-availability collaborator reports available
    cpp_context,  \* PJ_CONTEXT::cpp_context of the default context: "null" or "open"
    fctx,         \* the PJ_OPERATION_FACTORY_CONTEXT of the caller: <<>> (none) or <<record>>
    asked,        \* what the caller last passed to the setters of fctx
    nset,         \* number of setter calls made on fctx
    res,          \* the last API call: its name, arguments and what it returned
    crashed,      \* the process has run into undefined behaviour
    heap,         \* the PJ_OBJ handles created so far, by handle number
    store,        \* the IdentifiedObject instances behind the handles, with their reference counts
    objlist,      \* the PJ_OBJ_LIST of the caller: <<>> (none) or <<sequence of instances>>
    uom,          \* projCppContext::lastUOMName_ of the default context
    held,         \* the string the caller has been given in *out_name and still holds
    calls         \* number of calls made on PJ_OBJ handles, lists and strings

objVars == <<heap, store, objlist, uom, held, calls>>

vars ==
    <<dbOpenable, gridsAvail, cpp_context, fctx, asked, nset, res, crashed,
      heap, store, objlist, uom, held, calls>>

----------------------------------------------------------------------------
(* Bounds of the model *)

\* desired accuracies passed to the setter range over 0..MaxAccuracy
MaxAccuracy == 2
\* number of setter calls made on one factory context
MaxSetCalls == 2
\* number of PJ_OBJ handles created in one run
MaxHandles == 3
\* number of IdentifiedObject instances created in one run
MaxInstances == 6
\* number of calls made on PJ_OBJ handles, lists and strings in one run
MaxCalls == 4

----------------------------------------------------------------------------
(* The geodetic object model: every IdentifiedObject is a record of one    *)
(* shape.  comp and steps hold the component objects.                      *)

World == {1, 2, 3}

Obj(type, name, ids, num, axes, comp, area) ==
    [type |-> type, name |-> name, ids |-> ids, num |-> num, axes |-> axes,
     comp |-> comp, area |-> area, src |-> <<>>, tgt |-> <<>>, acc |-> <<>>,
     grids |-> {}, steps |-> <<>>]

Oper(type, name, ids, src, tgt, acc, area, grids, steps) ==
    [type |-> type, name |-> name, ids |-> ids, num |-> 0, axes |-> <<>>,
     comp |-> <<>>, area |-> area, src |-> src, tgt |-> tgt, acc |-> acc,
     grids |-> grids, steps |-> steps]

Datum(name, code, ellps) ==
    Obj("GeodeticReferenceFrame", name, <<<<"EPSG", code>>>>, ellps, <<>>, <<>>, World)

GeogCRS(name, ids, datum, axes, area) ==
    Obj("GeographicCRS", name, ids, 0, axes, <<datum>>, area)

ProjCRS(name, ids, base, zone, area) ==
    Obj("ProjectedCRS", name, ids, zone, <<"E", "N">>, <<base>>, area)

LatLon == <<"lat", "lon">>
LonLat == <<"lon", "lat">>

datumNAD == Datum("NAD27 datum", "D1", 1)
datumWGS == Datum("WGS 84 datum", "D2", 2)
datumETRS == Datum("ETRS89 datum", "D3", 3)

crsA == GeogCRS("NAD27", <<<<"EPSG", "A">>>>, datumNAD, LatLon, {1, 2})
crsASwap == GeogCRS("NAD27", <<>>, datumNAD, LonLat, {1, 2})
crsB == GeogCRS("WGS 84", <<<<"EPSG", "B">>>>, datumWGS, LatLon, World)
crsC == GeogCRS("ETRS89", <<<<"EPSG", "C">>>>, datumETRS, LatLon, {3})
crsP == GeogCRS("Pivot", <<<<"EPSG", "P">>>>, Datum("Pivot datum", "D4", 4), LatLon, World)
crsQ == GeogCRS("Far", <<<<"EPSG", "Q">>>>, Datum("Far datum", "D5", 5), LatLon, World)

----------------------------------------------------------------------------
(* Equivalence of objects *)

PJ_COMP_STRICT == 0
PJ_COMP_EQUIVALENT == 1
PJ_COMP_EQUIVALENT_EXCEPT_AXIS_ORDER_GEOGCRS == 2

Range(s) == {s[i] : i \in DOMAIN s}

\* The axes of two objects agree under a criterion: in the same order,
\* or for two GeographicCRS under the axis-order exception, as a set.
axesEquivalent(a, b, criterion) ==
    IF criterion = "EQUIVALENT_EXCEPT_AXIS_ORDER_GEOGCRS" /\ a.type = "GeographicCRS"
    THEN Len(a.axes) = Len(b.axes) /\ Range(a.axes) = Range(b.axes)
    ELSE a.axes = b.axes

RECURSIVE isEquivalentTo(_, _, _)
isEquivalentTo(a, b, criterion) ==
    /\ a.type = b.type
    /\ criterion = "STRICT" => (a.name = b.name /\ a.ids = b.ids /\ a.area = b.area)
    /\ a.num = b.num
    /\ axesEquivalent(a, b, criterion)
    /\ a.src = b.src /\ a.tgt = b.tgt /\ a.acc = b.acc /\ a.grids = b.grids
    /\ Len(a.comp) = Len(b.comp)
    /\ \A i \in DOMAIN a.comp : isEquivalentTo(a.comp[i], b.comp[i], criterion)
    /\ Len(a.steps) = Len(b.steps)
    /\ \A i \in DOMAIN a.steps : isEquivalentTo(a.steps[i], b.steps[i], criterion)

----------------------------------------------------------------------------
(* The catalog: the coordinate operations of proj.db, in catalog order.    *)
(* Accuracies are the strings the catalog stores.                          *)

Code(c) == <<"EPSG", c>>

Transformation(name, auth, code, src, tgt, acc, area, grids) ==
    Oper("Transformation", name, <<<<auth, code>>>>, Code(src), Code(tgt), acc, area, grids, <<>>)

Catalog ==
    << Transformation("A to B (1)", "EPSG", "T1", "A", "B", <<"1">>, {1, 2}, {"g1"}),
       Transformation("A to B (2)", "EPSG", "T2", "A", "B", <<"1">>, {1, 2}, {}),
       Transformation("A to B (3)", "OTHER", "T3", "A", "B", <<"2">>, World, {}),
       Transformation("A to B (4)", "EPSG", "T4", "A", "B", <<"unknown">>, World, {}),
       Transformation("A to P", "EPSG", "T5", "A", "P", <<"2">>, World, {"g2"}),
       Transformation("P to B", "EPSG", "T6", "P", "B", <<"3">>, World, {}),
       Transformation("P to Q", "EPSG", "T7", "P", "Q", <<"1">>, World, {}),
       Transformation("C to B", "EPSG", "T8", "C", "B", <<>>, {3}, {}) >>

AllCrsIds == <<Code("A"), Code("B"), Code("C"), Code("P"), Code("Q")>>

Grids == {"g1", "g2"}

\* c_locale_stod on the accuracy strings of the catalog; any other string throws
Stod == [s \in {"0", "1", "2", "3", "4", "5", "6"} |->
            CASE s = "0" -> 0 [] s = "1" -> 1 [] s = "2" -> 2 [] s = "3" -> 3
              [] s = "4" -> 4 [] s = "5" -> 5 [] s = "6" -> 6]

AccuracyString == [n \in 0..6 |->
            CASE n = 0 -> "0" [] n = 1 -> "1" [] n = 2 -> "2" [] n = 3 -> "3"
              [] n = 4 -> "4" [] n = 5 -> "5" [] n = 6 -> "6"]

RECURSIVE ConcatAll(_)
ConcatAll(ss) ==
    IF ss = <<>> THEN <<>> ELSE Head(ss) \o ConcatAll(Tail(ss))

----------------------------------------------------------------------------
(* CoordinateOperationFactory::createOperations, from the specification of *)
(* the operation resolver.                                                 *)

CrsId(crs) == IF crs.ids = <<>> THEN <<>> ELSE crs.ids[1]

\* the accuracy of an operation in metres, -1 when unknown
getAccuracy(op) ==
    IF op.acc = <<>> THEN -1
    ELSE IF op.acc[1] \in DOMAIN Stod THEN Stod[op.acc[1]] ELSE -1

inverse(op) ==
    Oper(op.type, "Inverse of " \o op.name, op.ids, op.tgt, op.src, op.acc,
         op.area, op.grids, <<>>)

\* the catalog the authority factory of a context gives access to
catalogOf(ctx) ==
    IF ~ctx.authFactory THEN <<>>
    ELSE IF ctx.authority \in {"", "any"} THEN Catalog
    ELSE SelectSeq(Catalog, LAMBDA op : op.ids[1][1] = ctx.authority)

oriented(op, s, t) ==
    IF op.src = s /\ op.tgt = t THEN <<op>>
    ELSE IF op.src = t /\ op.tgt = s THEN <<inverse(op)>>
    ELSE <<>>

\* cataloged operations from CRS id s to CRS id t, or reversed
opsBetween(cat, s, t) ==
    IF s = <<>> \/ t = <<>> THEN <<>>
    ELSE ConcatAll([i \in 1..Len(cat) |-> oriented(cat[i], s, t)])

\* conversions derived from the structure of the two CRS alone
hardCoded(src, tgt) ==
    IF isEquivalentTo(src, tgt, "EQUIVALENT")
    THEN <<Oper("Conversion", "Null geographic offset", <<>>, CrsId(src), CrsId(tgt),
                <<"0">>, World, {}, <<>>)>>
    ELSE IF isEquivalentTo(src, tgt, "EQUIVALENT_EXCEPT_AXIS_ORDER_GEOGCRS")
    THEN <<Oper("Conversion", "axis order change", <<>>, CrsId(src), CrsId(tgt),
                <<"0">>, World, {}, <<>>)>>
    ELSE <<>>

directCandidates(ctx, src, tgt) ==
    opsBetween(catalogOf(ctx), CrsId(src), CrsId(tgt)) \o hardCoded(src, tgt)

combinedAccuracy(f, g) ==
    IF getAccuracy(f) < 0 \/ getAccuracy(g) < 0 THEN <<>>
    ELSE <<AccuracyString[getAccuracy(f) + getAccuracy(g)]>>

\* the concatenation of f and g; none when the CRS at the join differ
concatenate(f, g) ==
    IF f.tgt # g.src THEN <<>>
    ELSE <<Oper("ConcatenatedOperation", f.name \o " + " \o g.name, <<>>, f.src, g.tgt,
                combinedAccuracy(f, g), f.area \cap g.area, {},
                <<f, g>>)>>

\* the pivot CRS to try: the allow-list when given, else every CRS of the
\* catalog with an operation to or from both the source and the target
pivotsOf(ctx, s, t) ==
    IF ctx.intermediateCRS # <<>> THEN ctx.intermediateCRS
    ELSE SelectSeq(AllCrsIds, LAMBDA p :
            /\ opsBetween(catalogOf(ctx), s, p) # <<>>
            /\ opsBetween(catalogOf(ctx), p, t) # <<>>)

viaPivot(cat, s, p, t) ==
    IF p = s \/ p = t THEN <<>>
    ELSE LET first == opsBetween(cat, s, p)
             second == opsBetween(cat, p, t)
         IN ConcatAll([k \in 1..(Len(first) * Len(second)) |->
                concatenate(first[((k - 1) \div Len(second)) + 1],
                            second[((k - 1) % Len(second)) + 1])])

pivotCandidates(ctx, src, tgt) ==
    LET s == CrsId(src)
        t == CrsId(tgt)
        ps == pivotsOf(ctx, s, t)
    IN ConcatAll([i \in 1..Len(ps) |-> viaPivot(catalogOf(ctx), s, ps[i], t)])

\* the area the operations are compared with
areaOfInterestOf(ctx, src, tgt) ==
    IF ctx.areaOfInterest # <<>> THEN ctx.areaOfInterest[1]
    ELSE CASE ctx.extentUse = "NONE" -> World
           [] ctx.extentUse = "BOTH" -> src.area \cup tgt.area
           [] ctx.extentUse = "INTERSECTION" -> src.area \cap tgt.area
           [] ctx.extentUse = "SMALLEST" ->
                IF Cardinality(tgt.area) < Cardinality(src.area) THEN tgt.area ELSE src.area

meets(area, aoi, criterion) ==
    IF criterion = "STRICT_CONTAINMENT" THEN aoi \subseteq area
    ELSE area \cap aoi # {}

satisfiesArea(ctx, src, tgt, op) ==
    IF ctx.areaOfInterest = <<>> /\ ctx.extentUse = "NONE" THEN TRUE
    ELSE IF ctx.areaOfInterest = <<>> /\ ctx.extentUse = "BOTH"
    THEN /\ meets(op.area, src.area, ctx.spatialCriterion)
         /\ meets(op.area, tgt.area, ctx.spatialCriterion)
    ELSE meets(op.area, areaOfInterestOf(ctx, src, tgt), ctx.spatialCriterion)

\* CoordinateOperation::gridsNeeded: the grids of the operation and, for a
\* concatenated operation, of all its steps
RECURSIVE gridsNeeded(_)
gridsNeeded(op) ==
    op.grids \cup UNION {gridsNeeded(op.steps[i]) : i \in DOMAIN op.steps}

missingGrid(op, avail) == \E g \in gridsNeeded(op) : g \notin avail

satisfiesAccuracy(ctx, op) ==
    ~(ctx.desiredAccuracy > 0 /\ getAccuracy(op) >= 0
        /\ getAccuracy(op) > ctx.desiredAccuracy)

satisfiesGrids(ctx, op, avail) ==
    ~(ctx.gridUse = "DISCARD_OPERATION_IF_MISSING_GRID" /\ missingGrid(op, avail))

kept(ctx, src, tgt, avail, op) ==
    /\ satisfiesAccuracy(ctx, op)
    /\ satisfiesArea(ctx, src, tgt, op)
    /\ satisfiesGrids(ctx, op, avail)

overlap(ctx, src, tgt, op) ==
    Cardinality(op.area \cap areaOfInterestOf(ctx, src, tgt))

\* a ranks strictly before b
before(ctx, src, tgt, avail, a, b) ==
    LET ua == getAccuracy(a) < 0
        ub == getAccuracy(b) < 0
        oa == overlap(ctx, src, tgt, a)
        ob == overlap(ctx, src, tgt, b)
    IN IF ua # ub THEN ub
       ELSE IF oa # ob THEN oa > ob
       ELSE IF getAccuracy(a) # getAccuracy(b) THEN getAccuracy(a) < getAccuracy(b)
       ELSE /\ ctx.gridUse = "USE_FOR_SORTING"
            /\ ~missingGrid(a, avail)
            /\ missingGrid(b, avail)

RECURSIVE insertRanked(_, _, _, _, _, _)
insertRanked(ctx, src, tgt, avail, sorted, x) ==
    IF sorted = <<>> THEN <<x>>
    ELSE IF before(ctx, src, tgt, avail, x, Head(sorted)) THEN <<x>> \o sorted
    ELSE <<Head(sorted)>> \o insertRanked(ctx, src, tgt, avail, Tail(sorted), x)

RECURSIVE ranked(_, _, _, _, _)
ranked(ctx, src, tgt, avail, ops) ==
    IF ops = <<>> THEN <<>>
    ELSE insertRanked(ctx, src, tgt, avail,
                      ranked(ctx, src, tgt, avail, SubSeq(ops, 1, Len(ops) - 1)),
                      ops[Len(ops)])

createOperations(ctx, src, tgt, avail) ==
    LET keep(op) == kept(ctx, src, tgt, avail, op)
        direct == SelectSeq(directCandidates(ctx, src, tgt), keep)
        usePivot == \/ ctx.allowUseIntermediateCRS /\ direct = <<>>
                    \/ ctx.intermediateCRS # <<>>
        pivot == IF usePivot THEN SelectSeq(pivotCandidates(ctx, src, tgt), keep)
                 ELSE <<>>
    IN ranked(ctx, src, tgt, avail, direct \o pivot)

----------------------------------------------------------------------------
(* The C API: contexts *)

NoObj == Obj("", "", <<>>, 0, <<>>, <<>>, {})

ellipsoidGRS == Obj("Ellipsoid", "GRS 1980", <<Code("E1")>>, 6378137, <<>>, <<>>, World)

CRSTypes == {"GeographicCRS", "ProjectedCRS", "VerticalCRS", "CompoundCRS"}
OperationTypes == {"Conversion", "Transformation", "ConcatenatedOperation"}

\* nn_dynamic_pointer_cast<CRS>(obj) is not null
isCRS(obj) == obj.type \in CRSTypes

\* dynamic_cast<const CoordinateOperation *>(obj) is not null
isCoordinateOperation(obj) == obj.type \in OperationTypes

\* the ctx argument of a call: NULL or the default context
CtxArgs == {"NULL", "default"}

SANITIZE_CTX(ctx) == IF ctx = "NULL" THEN "default" ELSE ctx

\* how a function that has no SANITIZE_CTX uses the ctx it is given
usedAsGiven(ctx) == IF ctx = "NULL" THEN "NULL dereferenced" ELSE "used"

\* cpp_context after getDBcontext(ctx): created when it was null and the
\* database opens; left null when the constructor throws
getDBcontext(cpp) == IF cpp = "null" /\ dbOpenable THEN "open" ELSE cpp

\* getDBcontextNoException(ctx) returns a non-null database context
getDBcontextNoException(cpp) == getDBcontext(cpp) = "open"

Call(fn, a, b, n, null, objects, ints, val) ==
    [fn |-> fn, a |-> a, b |-> b, n |-> n, null |-> null, objects |-> objects,
     ints |-> ints, val |-> val, str |-> "", opt |-> ""]

NoCall == Call("", NoObj, NoObj, 0, FALSE, <<>>, <<>>, 0)

\* what a caller has asked of a factory context it has just created
AskedNothing ==
    [accuracy |-> 0, allow |-> 1, pivots |-> <<>>,
     gridUse |-> "PROJ_GRID_AVAILABILITY_USED_FOR_SORTING"]

----------------------------------------------------------------------------------------------------------------------------------------------
(* PJ_OBJ handles and the instances they share *)

Handles == 1..MaxHandles
Instances == 1..MaxInstances

\* a PJ_OBJ: the instance it refers to and its cached results; queries
\* counts the calls of gridsNeeded made for it
FreeHandle ==
    [state |-> "free", obj |-> 0, lastWKT |-> <<>>, lastPROJString |-> <<>>,
     gridsNeededAsked |-> FALSE, gridsNeeded |-> <<>>, queries |-> 0]

\* an instance of IdentifiedObject: the number of shared pointers to it, its
\* value and the instance of its component; part2 is the second component
\* of a CompoundCRS
FreeInstance == [state |-> "free", rc |-> 0, val |-> NoObj, part |-> 0, part2 |-> 0]

\* the C string the caller holds in *out_name: whether the buffer it points
\* into still holds it, and what it said when it was given
NoString == [valid |-> FALSE, text |-> ""]

Init ==
    /\ dbOpenable \in BOOLEAN
    /\ gridsAvail \in SUBSET Grids
    /\ cpp_context = "null"
    /\ fctx = <<>>
    /\ asked = AskedNothing
    /\ nset = 0
    /\ res = NoCall
    /\ crashed = FALSE
    /\ heap = [h \in Handles |-> FreeHandle]
    /\ store = [a \in Instances |-> FreeInstance]
    /\ objlist = <<>>
    /\ uom = ""
    /\ held = NoString
    /\ calls = 0

----------------------------------------------------------------------------
(* The C API: the operation factory context *)

\* CoordinateOperationContext::create(authFactory, nullptr, 0.0), with the
\* defaults the setters document
CoordinateOperationContext_create(authFactory, authority) ==
    [authFactory |-> authFactory, authority |-> authority,
     desiredAccuracy |-> 0, areaOfInterest |-> <<>>,
     extentUse |-> "SMALLEST", spatialCriterion |-> "STRICT_CONTAINMENT",
     gridUse |-> "USE_FOR_SORTING", usePROJNames |-> TRUE,
     allowUseIntermediateCRS |-> TRUE, intermediateCRS |-> <<>>]

\* the authority argument: NULL or a string
AuthorityArgs == {"NULL", "EPSG"}

proj_create_operation_factory_context ==
    /\ ~crashed
    /\ fctx = <<>>
    /\ \E authority \in AuthorityArgs :
        LET dbContext == getDBcontextNoException(cpp_context)
            auth == IF authority = "NULL" THEN "" ELSE authority
        IN /\ cpp_context' = getDBcontext(cpp_context)
           /\ fctx' = <<CoordinateOperationContext_create(dbContext, IF dbContext THEN auth ELSE "")>>
           /\ res' = Call("proj_create_operation_factory_context", NoObj, NoObj, 0,
                          FALSE, <<>>, <<>>, 0)
    /\ asked' = AskedNothing
    /\ nset' = 0
    /\ UNCHANGED <<dbOpenable, gridsAvail, crashed>>
    /\ UNCHANGED objVars

proj_operation_factory_context_unref ==
    /\ ~crashed
    /\ fctx # <<>>
    /\ fctx' = <<>>
    /\ asked' = AskedNothing
    /\ nset' = 0
    /\ res' = Call("proj_operation_factory_context_unref", NoObj, NoObj, 0, FALSE,
                   <<>>, <<>>, 0)
    /\ UNCHANGED <<dbOpenable, gridsAvail, cpp_context, crashed>>
    /\ UNCHANGED objVars

\* a setter call: the field it stores, what the caller asked, and the frame
Setter(fn, n, ctx1, asked1) ==
    /\ fctx' = <<ctx1>>
    /\ asked' = asked1
    /\ nset' = nset + 1
    /\ res' = Call(fn, NoObj, NoObj, n, FALSE, <<>>, <<>>, 0)
    /\ UNCHANGED <<dbOpenable, gridsAvail, cpp_context, crashed>>
    /\ UNCHANGED objVars

CanSet == ~crashed /\ fctx # <<>> /\ nset < MaxSetCalls

\* a setter that leaves the context as it was
setDesiredAccuracyNotStored(ctx, accuracy) == ctx

\* operationContext->setDesiredAccuracy(accuracy)
setDesiredAccuracy(ctx, accuracy) == [ctx EXCEPT !.desiredAccuracy = accuracy]

proj_operation_factory_context_set_desired_accuracy ==
    /\ CanSet
    /\ \E accuracy \in 0..MaxAccuracy :
        Setter("proj_operation_factory_context_set_desired_accuracy", accuracy,
               setDesiredAccuracy(fctx[1], accuracy),
               [asked EXCEPT !.accuracy = accuracy])

\* Extent::createFromBBOX: the cells from west to east, across the
\* anti-meridian when west is greater than east
createFromBBOX(west, east) ==
    IF west <= east THEN {c \in World : west <= c /\ c <= east}
    ELSE {c \in World : west <= c \/ c <= east}

BBoxArgs == {<<1, 1>>, <<3, 1>>}

proj_operation_factory_context_set_area_of_interest ==
    /\ CanSet
    /\ \E bbox \in BBoxArgs :
        Setter("proj_operation_factory_context_set_area_of_interest", bbox[1],
               [fctx[1] EXCEPT !.areaOfInterest = <<createFromBBOX(bbox[1], bbox[2])>>],
               asked)

proj_operation_factory_context_set_crs_extent_use ==
    /\ CanSet
    /\ \E use \in {"PJ_CRS_EXTENT_NONE", "PJ_CRS_EXTENT_BOTH",
                   "PJ_CRS_EXTENT_INTERSECTION", "PJ_CRS_EXTENT_SMALLEST"} :
        Setter("proj_operation_factory_context_set_crs_extent_use", 0,
               [fctx[1] EXCEPT !.extentUse =
                    CASE use = "PJ_CRS_EXTENT_NONE" -> "NONE"
                      [] use = "PJ_CRS_EXTENT_BOTH" -> "BOTH"
                      [] use = "PJ_CRS_EXTENT_INTERSECTION" -> "INTERSECTION"
                      [] use = "PJ_CRS_EXTENT_SMALLEST" -> "SMALLEST"],
               asked)

proj_operation_factory_context_set_spatial_criterion ==
    /\ CanSet
    /\ \E criterion \in {"PROJ_SPATIAL_CRITERION_STRICT_CONTAINMENT",
                         "PROJ_SPATIAL_CRITERION_PARTIAL_INTERSECTION"} :
        Setter("proj_operation_factory_context_set_spatial_criterion", 0,
               [fctx[1] EXCEPT !.spatialCriterion =
                    CASE criterion = "PROJ_SPATIAL_CRITERION_STRICT_CONTAINMENT"
                            -> "STRICT_CONTAINMENT"
                      [] criterion = "PROJ_SPATIAL_CRITERION_PARTIAL_INTERSECTION"
                            -> "PARTIAL_INTERSECTION"],
               asked)

\* the switch with the cases for discarding and ignoring exchanged
gridAvailabilityUseSwapped(use) ==
    CASE use = "PROJ_GRID_AVAILABILITY_USED_FOR_SORTING" -> "USE_FOR_SORTING"
      [] use = "PROJ_GRID_AVAILABILITY_DISCARD_OPERATION_IF_MISSING_GRID"
            -> "IGNORE_GRID_AVAILABILITY"
      [] use = "PROJ_GRID_AVAILABILITY_IGNORED" -> "DISCARD_OPERATION_IF_MISSING_GRID"

\* the switch of proj_operation_factory_context_set_grid_availability_use
gridAvailabilityUse(use) ==
    CASE use = "PROJ_GRID_AVAILABILITY_USED_FOR_SORTING" -> "USE_FOR_SORTING"
      [] use = "PROJ_GRID_AVAILABILITY_DISCARD_OPERATION_IF_MISSING_GRID"
            -> "DISCARD_OPERATION_IF_MISSING_GRID"
      [] use = "PROJ_GRID_AVAILABILITY_IGNORED" -> "IGNORE_GRID_AVAILABILITY"

proj_operation_factory_context_set_grid_availability_use ==
    /\ CanSet
    /\ \E use \in {"PROJ_GRID_AVAILABILITY_USED_FOR_SORTING",
                   "PROJ_GRID_AVAILABILITY_DISCARD_OPERATION_IF_MISSING_GRID",
                   "PROJ_GRID_AVAILABILITY_IGNORED"} :
        Setter("proj_operation_factory_context_set_grid_availability_use", 0,
               [fctx[1] EXCEPT !.gridUse = gridAvailabilityUse(use)],
               [asked EXCEPT !.gridUse = use])

\* the flag stored with the test inverted
allowUseIntermediateCRSInverted(allow) == allow = 0

\* the value proj_operation_factory_context_set_allow_use_intermediate_crs stores
allowUseIntermediateCRS(allow) == allow # 0

proj_operation_factory_context_set_allow_use_intermediate_crs ==
    /\ CanSet
    /\ \E allow \in {0, 1} :
        Setter("proj_operation_factory_context_set_allow_use_intermediate_crs", allow,
               [fctx[1] EXCEPT !.allowUseIntermediateCRS = allowUseIntermediateCRS(allow)],
               [asked EXCEPT !.allow = allow])

\* the loop taking a last authority name that has no code as a pair of its own
RECURSIVE pivotPairsWithTrailing(_)
pivotPairsWithTrailing(list) ==
    IF list = <<>> THEN <<>>
    ELSE IF Len(list) = 1 THEN <<<<list[1], "">>>>
    ELSE <<<<list[1], list[2]>>>> \o pivotPairsWithTrailing(SubSeq(list, 3, Len(list)))

\* the loop of proj_operation_factory_context_set_allowed_intermediate_crs over
\* a NULL-terminated array: pairs are taken while iter[0] and iter[1] are set
RECURSIVE pivotPairs(_)
pivotPairs(list) ==
    IF Len(list) < 2 THEN <<>>
    ELSE <<<<list[1], list[2]>>>> \o pivotPairs(SubSeq(list, 3, Len(list)))

\* the arrays passed, without their terminating NULL; <<>> is also a NULL list
PivotListArgs ==
    {<<>>, <<"EPSG", "P">>, <<"EPSG", "Q">>, <<"EPSG", "B", "EPSG">>,
     <<"EPSG", "Q", "EPSG", "P">>}

proj_operation_factory_context_set_allowed_intermediate_crs ==
    /\ CanSet
    /\ \E list_of_auth_name_codes \in PivotListArgs :
        Setter("proj_operation_factory_context_set_allowed_intermediate_crs",
               Len(list_of_auth_name_codes),
               [fctx[1] EXCEPT !.intermediateCRS = pivotPairs(list_of_auth_name_codes)],
               [asked EXCEPT !.pivots = list_of_auth_name_codes])

----------------------------------------------------------------------------
(* The C API: proj_obj_create_operations *)

\* the objects passed as source_crs and target_crs
OperationArgs ==
    {<<crsA, crsASwap>>, <<crsA, crsB>>, <<crsA, crsC>>, <<crsA, crsQ>>,
     <<crsC, crsB>>, <<crsC, crsC>>, <<crsC, crsQ>>,
     <<ellipsoidGRS, crsB>>, <<crsA, ellipsoidGRS>>}

\* the loop with each operation put at the front of the list
RECURSIVE emplaceAllFront(_, _)
emplaceAllFront(objects, ops) ==
    IF ops = <<>> THEN objects
    ELSE emplaceAllFront(<<Head(ops)>> \o objects, Tail(ops))

\* the loop that copies the operations found into the result list
RECURSIVE emplaceAll(_, _)
emplaceAll(objects, ops) ==
    IF ops = <<>> THEN objects
    ELSE emplaceAll(Append(objects, Head(ops)), Tail(ops))

\* proj_obj_create_operations taking an empty result for an error
createOperationsResultNullWhenEmpty(source_crs, target_crs, operationContext, fails) ==
    IF \/ ~isCRS(source_crs) \/ ~isCRS(target_crs)
       \/ (~fails /\ createOperations(operationContext, source_crs, target_crs,
                                      gridsAvail) = <<>>)
    THEN Call("proj_obj_create_operations", source_crs, target_crs, 0, TRUE,
              <<>>, <<>>, 0)
    ELSE IF fails
    THEN Call("proj_obj_create_operations", source_crs, target_crs, 1, TRUE,
              <<>>, <<>>, 0)
    ELSE Call("proj_obj_create_operations", source_crs, target_crs, 0, FALSE,
              createOperations(operationContext, source_crs, target_crs, gridsAvail),
              <<>>, 0)

\* what proj_obj_create_operations returns; fails: the engine throws
createOperationsResult(source_crs, target_crs, operationContext, fails) ==
    IF ~isCRS(source_crs) \/ ~isCRS(target_crs)
    THEN Call("proj_obj_create_operations", source_crs, target_crs, 0, TRUE,
              <<>>, <<>>, 0)
    ELSE IF fails
    THEN Call("proj_obj_create_operations", source_crs, target_crs, 1, TRUE,
              <<>>, <<>>, 0)
    ELSE Call("proj_obj_create_operations", source_crs, target_crs, 0, FALSE,
              emplaceAll(<<>>, createOperations(operationContext, source_crs,
                                                target_crs, gridsAvail)),
              <<>>, 0)

proj_obj_create_operations ==
    /\ ~crashed
    /\ fctx # <<>>
    /\ \E args \in OperationArgs, fails \in BOOLEAN :
        \* the engine can only fail when it queries a catalog
        /\ fails => fctx[1].authFactory
        /\ res' = createOperationsResult(args[1], args[2], fctx[1], fails)
    /\ UNCHANGED <<dbOpenable, gridsAvail, cpp_context, fctx, asked, nset, crashed>>
    /\ UNCHANGED objVars

proj_obj_list_get_count(result) == Len(result.objects)

\* proj_coordoperation_get_accuracy with the test for an empty list inverted
getAccuracyEmptyTestInverted(coordoperation) ==
    IF ~isCoordinateOperation(coordoperation) THEN -1
    ELSE IF coordoperation.acc # <<>> THEN -1
    ELSE -1

proj_coordoperation_get_accuracy(coordoperation) ==
    IF ~isCoordinateOperation(coordoperation) THEN -1
    ELSE IF coordoperation.acc = <<>> THEN -1
    ELSE IF coordoperation.acc[1] \in DOMAIN Stod THEN Stod[coordoperation.acc[1]]
    ELSE -1

NextOps ==
    \/ proj_create_operation_factory_context
    \/ proj_operation_factory_context_unref
    \/ proj_operation_factory_context_set_desired_accuracy
    \/ proj_operation_factory_context_set_area_of_interest
    \/ proj_operation_factory_context_set_crs_extent_use
    \/ proj_operation_factory_context_set_spatial_criterion
    \/ proj_operation_factory_context_set_grid_availability_use
    \/ proj_operation_factory_context_set_allow_use_intermediate_crs
    \/ proj_operation_factory_context_set_allowed_intermediate_crs
    \/ proj_obj_create_operations

SpecOps == Init /\ [][NextOps]_vars

----------------------------------------------------------------------------
(* CRS::identify, from the specification of CRS identification *)

crsAlias == GeogCRS("NAD 27", <<Code("A2")>>, datumNAD, LatLon, {1, 2})
crsTwin == GeogCRS("North American", <<<<"OTHER", "A3">>>>, datumNAD, LatLon, {1})
crsNamesake == GeogCRS("NAD_27", <<Code("X")>>, datumETRS, LatLon, {3})
crsUnnamed == GeogCRS("unnamed", <<>>, datumNAD, LatLon, World)
crsNad == GeogCRS("NAD_27", <<>>, datumNAD, LatLon, World)
crsNowhere == GeogCRS("Nowhere", <<>>, Datum("Nowhere datum", "D9", 9), LatLon, World)
utmA == ProjCRS("NAD27 / UTM", <<Code("U")>>, crsA, 10, {1})

\* the CRS of the catalog, in catalog order
CatalogCRS == <<crsA, crsAlias, crsTwin, crsNamesake, crsB, crsC, crsP, crsQ, utmA>>

\* the CRS known without a catalog
WellKnownCRS == <<crsB>>

\* a name without case, spaces and underscores
canonicalName(name) ==
    CASE name \in {"NAD27", "NAD 27", "NAD_27"} -> "nad27"
      [] OTHER -> name

namesSimilar(a, b) == canonicalName(a) = canonicalName(b)

\* the reference CRS a CRS is compared with
candidatePool(crs, auth_name) ==
    LET inNamespace(c) == auth_name = "" \/ (c.ids # <<>> /\ c.ids[1][1] = auth_name)
        sameCategory(c) == c.type = crs.type
    IN SelectSeq(WellKnownCRS \o SelectSeq(CatalogCRS, inNamespace), sameCategory)

confidenceOf(crs, candidate) ==
    IF isEquivalentTo(candidate, crs, "EQUIVALENT")
    THEN IF candidate.name = crs.name THEN 100
         ELSE IF namesSimilar(candidate.name, crs.name) THEN 90
         ELSE 70
    ELSE IF namesSimilar(candidate.name, crs.name) THEN 25
    ELSE 0

\* the pairs (reference CRS, confidence), best first
identify(crs, auth_name) ==
    LET pool == candidatePool(crs, auth_name)
        withConfidence(n) ==
            LET hits == SelectSeq(pool, LAMBDA c : confidenceOf(crs, c) = n)
            IN [i \in 1..Len(hits) |-> <<hits[i], n>>]
    IN IF withConfidence(100) # <<>> THEN <<withConfidence(100)[1]>>
       ELSE withConfidence(90) \o withConfidence(70) \o withConfidence(25)

----------------------------------------------------------------------------
(* The C API: proj_obj_identify *)

\* the list without its first reference CRS
identifiedObjectsSkipFirst(pairs) ==
    [i \in 1..(Len(pairs) - 1) |-> pairs[i + 1][1]]

\* objects.push_back(pair.first) for every pair
identifiedObjects(pairs) == [i \in 1..Len(pairs) |-> pairs[i][1]]

\* the confidences written from the end of the array
confidencesReversed(pairs) == [i \in 1..Len(pairs) |-> pairs[Len(pairs) + 1 - i][2]]

\* confidenceTemp[i] = pair.second for every pair
confidences(pairs) == [i \in 1..Len(pairs) |-> pairs[i][2]]

\* the catch block without its delete[]
leakedAfterCatchKept(allocated) == IF allocated THEN 1 ELSE 0

\* delete[] confidenceTemp in the catch block: the number of arrays that
\* are left allocated with no pointer to them
leakedAfterCatch(allocated) == 0

IdentifyArgs == {crsA, crsASwap, crsNad, crsUnnamed, crsNowhere, ellipsoidGRS}

AuthNameArgs == {"NULL", "EPSG"}

proj_obj_identify ==
    /\ ~crashed
    /\ \E ctx \in CtxArgs, obj \in IdentifyArgs, auth_name \in AuthNameArgs,
          out_confidence \in {0, 1}, fails \in BOOLEAN, late \in BOOLEAN :
        \* res.opt: whether *out_confidence is NULL or an array; res.val: the
        \* arrays left allocated with no pointer to them; late: the failure
        \* comes after confidenceTemp has been allocated
        LET given(ints, array) ==
                IF out_confidence = 0 THEN "" ELSE IF array THEN "array" ELSE "NULL"
            call(null, objects, ints) ==
                [Call("proj_obj_identify", obj, NoObj, out_confidence, null, objects,
                      ints, IF null /\ fails
                            THEN leakedAfterCatch(late /\ out_confidence = 1) ELSE 0)
                    EXCEPT !.str = auth_name, !.opt = given(ints, ~null)]
            opened == getDBcontext(cpp_context) = "open"
            pairs == identify(obj, IF auth_name = "NULL" THEN "" ELSE auth_name)
        IN /\ SANITIZE_CTX(ctx) = "default"
           /\ IF ~isCRS(obj)
              THEN /\ ~fails /\ ~late
                   /\ res' = call(TRUE, <<>>, <<>>)
                   /\ UNCHANGED cpp_context
              ELSE /\ cpp_context' = getDBcontext(cpp_context)
                   /\ fails => opened
                   /\ late => fails
                   /\ res' = IF ~opened \/ fails
                             THEN call(TRUE, <<>>, <<>>)
                             ELSE call(FALSE, identifiedObjects(pairs),
                                       IF out_confidence = 1 THEN confidences(pairs)
                                       ELSE <<>>)
    /\ UNCHANGED <<dbOpenable, gridsAvail, fctx, asked, nset, crashed>>
    /\ UNCHANGED objVars

----------------------------------------------------------------------------
(* The C API: proj_obj_is_equivalent_to *)

\* the criterion with the first two enumerators exchanged
cppCriterionShifted(criterion) ==
    CASE criterion = PJ_COMP_STRICT -> "EQUIVALENT"
      [] criterion = PJ_COMP_EQUIVALENT -> "STRICT"
      [] criterion = PJ_COMP_EQUIVALENT_EXCEPT_AXIS_ORDER_GEOGCRS
            -> "EQUIVALENT_EXCEPT_AXIS_ORDER_GEOGCRS"

\* static_cast<IComparable::Criterion>(criterion): the enumerators of the C
\* and the C++ enumeration have the same values
cppCriterion(criterion) ==
    CASE criterion = PJ_COMP_STRICT -> "STRICT"
      [] criterion = PJ_COMP_EQUIVALENT -> "EQUIVALENT"
      [] criterion = PJ_COMP_EQUIVALENT_EXCEPT_AXIS_ORDER_GEOGCRS
            -> "EQUIVALENT_EXCEPT_AXIS_ORDER_GEOGCRS"

\* what proj_obj_is_equivalent_to returns
isEquivalentToResult(obj, other, criterion) ==
    IF isEquivalentTo(obj, other, cppCriterion(criterion)) THEN 1 ELSE 0

CriterionArgs ==
    {PJ_COMP_STRICT, PJ_COMP_EQUIVALENT, PJ_COMP_EQUIVALENT_EXCEPT_AXIS_ORDER_GEOGCRS}

utmASwap == ProjCRS("NAD27 / UTM", <<Code("U")>>, crsASwap, 10, {1})
utmAlias == ProjCRS("NAD 27 / UTM zone 10", <<>>, crsAlias, 10, {1})

EquivalenceArgs ==
    {crsA, crsASwap, crsAlias, crsB, utmA, utmASwap, utmAlias, ellipsoidGRS, Catalog[1]}

proj_obj_is_equivalent_to ==
    /\ ~crashed
    /\ \E obj \in EquivalenceArgs, other \in EquivalenceArgs, criterion \in CriterionArgs :
        res' = Call("proj_obj_is_equivalent_to", obj, other, criterion, FALSE, <<>>,
                    <<>>, isEquivalentToResult(obj, other, criterion))
    /\ UNCHANGED <<dbOpenable, gridsAvail, cpp_context, fctx, asked, nset, crashed>>
    /\ UNCHANGED objVars

----------------------------------------------------------------------------
(* The C API: proj_coordoperation_is_instanciable *)

\* CoordinateOperation::isPROJInstanciable: every grid needed is available
isPROJInstanciable(op, avail) == \A g \in gridsNeeded(op) : g \in avail

concatAPB == concatenate(Catalog[5], Catalog[6])[1]

InstanciableArgs == {Catalog[1], Catalog[2], concatAPB, ellipsoidGRS}

\* The function uses ctx as it is given: with a NULL ctx, logging the error
\* and getting the database context dereference a null pointer.
proj_coordoperation_is_instanciable ==
    /\ ~crashed
    /\ \E ctx \in CtxArgs, coordoperation \in InstanciableArgs, fails \in BOOLEAN :
        LET call(n, val) ==
                [Call("proj_coordoperation_is_instanciable", coordoperation, NoObj, n,
                      FALSE, <<>>, <<>>, val)
                    EXCEPT !.str = ctx, !.opt = usedAsGiven(ctx)]
        IN
        IF ctx = "NULL"
        THEN \* undefined behaviour: the process stops, or goes on with any result
             /\ ~fails
             /\ \E stops \in BOOLEAN, val \in {0, 1} :
                 /\ crashed' = stops
                 /\ res' = call(0, val)
             /\ UNCHANGED cpp_context
        ELSE IF ~isCoordinateOperation(coordoperation)
        THEN /\ ~fails
             /\ res' = call(0, 0)
             /\ UNCHANGED <<cpp_context, crashed>>
        ELSE /\ cpp_context' = getDBcontext(cpp_context)
             /\ res' = call(IF fails THEN 1 ELSE 0,
                             IF ~fails /\ isPROJInstanciable(coordoperation, gridsAvail)
                             THEN 1 ELSE 0)
             /\ UNCHANGED crashed
    /\ UNCHANGED <<dbOpenable, gridsAvail, fctx, asked, nset>>
    /\ UNCHANGED objVars

NextObj ==
    \/ proj_obj_identify
    \/ proj_obj_is_equivalent_to
    \/ proj_coordoperation_is_instanciable

SpecObj == Init /\ [][NextObj]_vars

----------------------------------------------------------------------------
(* Memory: PJ_OBJ::create, shared pointers, proj_obj_unref *)

Min(S) == CHOOSE x \in S : \A y \in S : x <= y

freeHandles(hp) == {h \in Handles : hp[h].state = "free"}
freeInstances(st) == {a \in Instances : st[a].state = "free"}
liveHandles == {h \in Handles : heap[h].state = "live"}

\* the heap and the store of the state, with no value returned yet
Memory == [heap |-> heap, store |-> store, ret |-> 0]

\* there are handle and instance numbers left for a call
Room(handles, instances) ==
    /\ Cardinality(freeHandles(heap)) >= handles
    /\ Cardinality(freeInstances(store)) >= instances

\* a handle made without taking a share of the instance
PJ_OBJ_createUncounted(m, a) ==
    LET h == Min(freeHandles(m.heap))
    IN [heap |-> [m.heap EXCEPT ![h] = [FreeHandle EXCEPT !.state = "live", !.obj = a]],
        store |-> m.store, ret |-> h]

\* PJ_OBJ::create(objIn): a new PJ_OBJ holding a shared pointer to the
\* instance; instance 0 is the null pointer
PJ_OBJ_create(m, a) ==
    LET h == Min(freeHandles(m.heap))
    IN [heap |-> [m.heap EXCEPT ![h] = [FreeHandle EXCEPT !.state = "live", !.obj = a]],
        store |-> IF a = 0 THEN m.store ELSE [m.store EXCEPT ![a].rc = @ + 1],
        ret |-> h]

\* a new instance of value v that shares the instance part as its component
newInstance(m, v, part) ==
    LET a == Min(freeInstances(m.store))
        made == [m.store EXCEPT ![a] = [state |-> "live", rc |-> 0, val |-> v,
                                        part |-> part, part2 |-> 0]]
    IN [heap |-> m.heap,
        store |-> IF part = 0 THEN made ELSE [made EXCEPT ![part].rc = @ + 1],
        ret |-> a]

\* new instances for a value and its components
RECURSIVE newInstances(_, _)
newInstances(m, v) ==
    IF v.comp = <<>> THEN newInstance(m, v, 0)
    ELSE IF Len(v.comp) = 1
    THEN LET m1 == newInstances(m, v.comp[1]) IN newInstance(m1, v, m1.ret)
    ELSE LET m1 == newInstances(m, v.comp[1])
             m2 == newInstances(m1, v.comp[2])
             m3 == newInstance(m2, v, m1.ret)
         IN [m3 EXCEPT !.store[m3.ret].part2 = m2.ret, !.store[m2.ret].rc = @ + 1]

\* the number of instances a value takes
RECURSIVE instancesOf(_)
instancesOf(v) ==
    IF v.comp = <<>> THEN 1
    ELSE IF Len(v.comp) = 1 THEN 1 + instancesOf(v.comp[1])
    ELSE 1 + instancesOf(v.comp[1]) + instancesOf(v.comp[2])

\* a shared pointer to instance a goes away
RECURSIVE release(_, _)
release(st, a) ==
    IF a = 0 THEN st
    ELSE IF st[a].rc > 1 THEN [st EXCEPT ![a].rc = @ - 1]
    ELSE LET freed == [st EXCEPT ![a] = FreeInstance]
             first == IF st[a].part = 0 THEN freed ELSE release(freed, st[a].part)
         IN IF st[a].part2 = 0 THEN first ELSE release(first, st[a].part2)

\* delete obj
deleteHandle(m, h) ==
    [heap |-> [m.heap EXCEPT ![h] = FreeHandle],
     store |-> release(m.store, m.heap[h].obj), ret |-> m.ret]

valueOf(m, h) == m.store[m.heap[h].obj].val

\* the call with integer arguments ints returned handle m.ret (0: NULL) and
\* left the memory m
GivesWith(fn, h, str, ints, m) ==
    /\ calls < MaxCalls
    /\ calls' = calls + 1
    /\ heap' = m.heap
    /\ store' = m.store
    /\ res' = [Call(fn, NoObj, NoObj, h, m.ret = 0, <<>>, ints, m.ret) EXCEPT !.str = str]

\* the call returned handle m.ret (0: NULL) and left the memory m
Gives(fn, h, str, m) == GivesWith(fn, h, str, <<>>, m)

----------------------------------------------------------------------------
(* The C API: proj_obj_create_from_database, proj_obj_clone, proj_obj_unref *)

PJ_OBJ_CATEGORY_ELLIPSOID == 0
PJ_OBJ_CATEGORY_PRIME_MERIDIAN == 1
PJ_OBJ_CATEGORY_DATUM == 2
PJ_OBJ_CATEGORY_CRS == 3
PJ_OBJ_CATEGORY_COORDINATE_OPERATION == 4

verticalDatum ==
    Obj("VerticalReferenceFrame", "NAVD88 datum", <<Code("D6")>>, 0, <<>>, <<>>, World)

crsHeight == Obj("VerticalCRS", "NAVD88 height", <<Code("H")>>, 0, <<"up">>,
                 <<verticalDatum>>, World)

crsCompound == Obj("CompoundCRS", "NAD27 + NAVD88 height", <<Code("AH")>>, 0, <<>>,
                   <<crsA, crsHeight>>, {1, 2})

ensembleWGS == Obj("DatumEnsemble", "WGS 84 ensemble", <<Code("D7")>>, 2, <<>>, <<>>, World)

\* a GeographicCRS that has a datum ensemble and no datum
crsEnsemble == GeogCRS("WGS 84 (G)", <<Code("G")>>, ensembleWGS, LatLon, World)

primeMeridianGreenwich ==
    Obj("PrimeMeridian", "Greenwich", <<Code("PM")>>, 0, <<>>, <<>>, World)

\* the CRS of the database: those of the catalog of operations, and some
\* that have no operation
DatabaseCRS == CatalogCRS \o <<crsHeight, crsCompound, crsEnsemble>>

\* AuthorityFactory::createEllipsoid, createCoordinateReferenceSystem and
\* createCoordinateOperation: the objects of a code, none when there is no
\* such code
createFromCode(auth_name, code, category) ==
    LET pool == CASE category = PJ_OBJ_CATEGORY_ELLIPSOID -> <<ellipsoidGRS>>
                  [] category = PJ_OBJ_CATEGORY_PRIME_MERIDIAN -> <<primeMeridianGreenwich>>
                  [] category = PJ_OBJ_CATEGORY_DATUM -> <<datumNAD, datumWGS, datumETRS>>
                  [] category = PJ_OBJ_CATEGORY_CRS -> DatabaseCRS
                  [] category = PJ_OBJ_CATEGORY_COORDINATE_OPERATION -> Catalog
    IN SelectSeq(pool, LAMBDA o : o.ids # <<>> /\ o.ids[1] = <<auth_name, code>>)

DatabaseArgs ==
    {<<"EPSG", "A", PJ_OBJ_CATEGORY_CRS>>, <<"EPSG", "U", PJ_OBJ_CATEGORY_CRS>>,
     <<"EPSG", "E1", PJ_OBJ_CATEGORY_ELLIPSOID>>,
     <<"EPSG", "T1", PJ_OBJ_CATEGORY_COORDINATE_OPERATION>>,
     <<"EPSG", "T2", PJ_OBJ_CATEGORY_COORDINATE_OPERATION>>,
     <<"EPSG", "none", PJ_OBJ_CATEGORY_CRS>>}

\* the categories that the switch of proj_obj_create_from_database has a
\* case for
CategoriesHandled ==
    {PJ_OBJ_CATEGORY_ELLIPSOID, PJ_OBJ_CATEGORY_PRIME_MERIDIAN, PJ_OBJ_CATEGORY_DATUM,
     PJ_OBJ_CATEGORY_CRS, PJ_OBJ_CATEGORY_COORDINATE_OPERATION}

\* what proj_obj_create_from_database does for arguments args: for a
\* category without a case obj stays null, nothing throws, and
\* PJ_OBJ::create(NN_NO_CHECK(obj)) wraps the null pointer
createFromDatabase(args) ==
    LET found == createFromCode(args[1], args[2], args[3])
        opened == getDBcontext(cpp_context) = "open"
    IN /\ cpp_context' = getDBcontext(cpp_context)
       /\ IF opened /\ args[3] \notin CategoriesHandled
          THEN /\ Room(1, 0)
               /\ GivesWith("proj_obj_create_from_database", 0, args[2], <<args[3]>>,
                        PJ_OBJ_create(Memory, 0))
          ELSE IF opened /\ found # <<>>
          THEN /\ Room(1, instancesOf(found[1]))
               /\ LET m == newInstances(Memory, found[1])
                  IN GivesWith("proj_obj_create_from_database", 0, args[2], <<args[3]>>,
                              PJ_OBJ_create(m, m.ret))
          ELSE GivesWith("proj_obj_create_from_database", 0, args[2], <<args[3]>>, Memory)
       /\ UNCHANGED <<dbOpenable, gridsAvail, fctx, asked, nset, crashed,
                      objlist, uom, held>>

proj_obj_create_from_database ==
    /\ ~crashed
    /\ \E args \in DatabaseArgs : createFromDatabase(args)

proj_obj_clone ==
    /\ ~crashed
    /\ Room(1, 0)
    /\ \E obj \in liveHandles :
        Gives("proj_obj_clone", obj, "", PJ_OBJ_create(Memory, heap[obj].obj))
    /\ UNCHANGED <<dbOpenable, gridsAvail, cpp_context, fctx, asked, nset, crashed,
                   objlist, uom, held>>

proj_obj_unref ==
    /\ ~crashed
    /\ \E obj \in liveHandles :
        Gives("proj_obj_unref", obj, "", deleteHandle(Memory, obj))
    /\ UNCHANGED <<dbOpenable, gridsAvail, cpp_context, fctx, asked, nset, crashed,
                   objlist, uom, held>>

----------------------------------------------------------------------------
(* Alteration of a CRS, from the specification of the object model *)

\* CRS::alterName: the CRS under another name
alterName(crs, name) == [crs EXCEPT !.name = name]

\* CRS::alterGeodeticCRS on a ProjectedCRS: the CRS over another base CRS
alterGeodeticCRS(crs, newGeodCRS) == [crs EXCEPT !.comp = <<newGeodCRS>>]

\* an axis without its unit
axisDirection(axis) ==
    CASE axis \in {"E", "E_ft"} -> "E"
      [] axis \in {"N", "N_ft"} -> "N"
      [] axis \in {"lat", "lat_grad"} -> "lat"
      [] axis \in {"lon", "lon_grad"} -> "lon"

\* an axis in a unit
axisInUnit(axis, unit) ==
    LET d == axisDirection(axis)
    IN CASE unit = "foot" /\ d = "E" -> "E_ft"
         [] unit = "foot" /\ d = "N" -> "N_ft"
         [] unit = "grad" /\ d = "lat" -> "lat_grad"
         [] unit = "grad" /\ d = "lon" -> "lon_grad"
         [] OTHER -> d

\* CoordinateSystem::alterUnit, alterAngularUnit: the axes in another unit
alterUnit(axes, unit) == [i \in DOMAIN axes |-> axisInUnit(axes[i], unit)]

\* CRS::alterCSLinearUnit: the CRS with its linear axes in another unit
alterCSLinearUnit(crs, unit) == [crs EXCEPT !.axes = alterUnit(crs.axes, unit)]

\* ProjectedCRS::alterParametersLinearUnit: the parameters of the conversion
\* in another unit; their values are converted, or else kept as they are
\* and so have another meaning
alterParametersLinearUnit(crs, unit, convertToNewUnit) ==
    IF convertToNewUnit \/ unit = "metre" THEN crs ELSE [crs EXCEPT !.num = (crs.num % 60) + 60]

----------------------------------------------------------------------------
(* The C API: the alteration functions *)

\* createLinearUnit(name, conv): Metre when the name is NULL
createLinearUnit(name) == IF name = "NULL" THEN "metre" ELSE name

\* createAngularUnit(name, conv): Degree when the name is NULL
createAngularUnit(name) == IF name = "NULL" THEN "degree" ELSE name

NameArgs == {"X", "NAD27"}
LinearUnitArgs == {"NULL", "foot"}
AngularUnitArgs == {"NULL", "grad"}

\* a result that gives a CRS already of that name yet another name
alterNameResultOnce(v, name) ==
    IF ~isCRS(v) THEN NoObj
    ELSE IF v.name = name THEN alterName(v, "unnamed") ELSE alterName(v, name)

\* the value of the object proj_obj_alter_name returns, NoObj for NULL
alterNameResult(v, name) == IF ~isCRS(v) THEN NoObj ELSE alterName(v, name)

\* memory after a call that returns NULL
Null(m) == [m EXCEPT !.ret = 0]

\* a renaming in place: the instance of obj takes the name, and the handle
\* returned is one more handle on it
alterNameMemoryInPlace(m, obj, name, fails) ==
    LET a == m.heap[obj].obj
    IN IF alterNameResult(m.store[a].val, name) = NoObj \/ fails THEN Null(m)
       ELSE PJ_OBJ_create([m EXCEPT !.store[a].val = alterNameResult(@, name)], a)

\* proj_obj_alter_name: the new CRS shares the component of obj
alterNameMemory(m, obj, name, fails) ==
    LET v == valueOf(m, obj)
    IN IF alterNameResult(v, name) = NoObj \/ fails THEN Null(m)
       ELSE LET m1 == newInstance(m, alterNameResult(v, name), m.store[m.heap[obj].obj].part)
            IN PJ_OBJ_create(m1, m1.ret)

\* proj_obj_crs_alter_geodetic_crs: a GeographicCRS gives a clone of
\* new_geod_crs, a ProjectedCRS a new CRS over new_geod_crs
alterGeodeticCRSMemory(m, obj, new_geod_crs, fails) ==
    LET v == valueOf(m, obj)
        g == m.heap[new_geod_crs].obj
    IN IF valueOf(m, new_geod_crs).type # "GeographicCRS" THEN Null(m)
       ELSE IF ~isCRS(v) \/ fails THEN Null(m)
       ELSE LET m1 == IF v.type = "GeographicCRS"
                      THEN newInstance(m, m.store[g].val, m.store[g].part)
                      ELSE newInstance(m, alterGeodeticCRS(v, m.store[g].val), g)
            IN PJ_OBJ_create(m1, m1.ret)

\* proj_obj_unref of a temporary handle of the function
unref(m, h) == deleteHandle(m, h)

\* CRS::extractGeodeticCRSRaw: the GeographicCRS itself, the base CRS of a
\* ProjectedCRS, that of the first component of a CompoundCRS that has one
RECURSIVE extractGeodeticCRSRaw(_, _)
extractGeodeticCRSRaw(st, a) ==
    LET v == st[a].val
    IN IF v.type = "GeographicCRS" THEN a
       ELSE IF v.type = "ProjectedCRS" THEN st[a].part
       ELSE IF v.type = "CompoundCRS"
       THEN LET first == extractGeodeticCRSRaw(st, st[a].part)
            IN IF first # 0 THEN first ELSE extractGeodeticCRSRaw(st, st[a].part2)
       ELSE 0

\* extractGeodeticCRS: the instance of the GeodeticCRS of a CRS, 0 for none
extractGeodeticCRS(m, crs) == extractGeodeticCRSRaw(m.store, m.heap[crs].obj)

\* proj_obj_crs_alter_cs_angular_unit
alterCSAngularUnitMemory(m, obj, angular_units, fails) ==
    LET geod == extractGeodeticCRS(m, obj)
    IN IF geod = 0 THEN Null(m)
       ELSE LET m1 == PJ_OBJ_create(m, geod)
                geodCRS == m1.ret
                v == m1.store[geod].val
                altered == GeogCRS(v.name, <<>>, v.comp[1],
                                   alterUnit(v.axes, createAngularUnit(angular_units)), {})
            IN IF fails THEN Null(unref(m1, geodCRS))
               ELSE LET m2 == newInstance(m1, altered, m1.store[geod].part)
                        m3 == PJ_OBJ_create(m2, m2.ret)
                        geogCRSAltered == m3.ret
                        m4 == unref(m3, geodCRS)
                        m5 == alterGeodeticCRSMemory(m4, obj, geogCRSAltered, FALSE)
                    IN [unref(m5, geogCRSAltered) EXCEPT !.ret = m5.ret]

\* proj_obj_crs_alter_cs_linear_unit
alterCSLinearUnitMemory(m, obj, linear_units, fails) ==
    LET v == valueOf(m, obj)
    IN IF ~isCRS(v) \/ fails THEN Null(m)
       ELSE LET m1 == newInstance(m, alterCSLinearUnit(v, createLinearUnit(linear_units)),
                                  m.store[m.heap[obj].obj].part)
            IN PJ_OBJ_create(m1, m1.ret)

\* proj_obj_crs_alter_parameters_linear_unit
alterParametersLinearUnitMemory(m, obj, linear_units, convert_to_new_unit, fails) ==
    LET v == valueOf(m, obj)
    IN IF v.type # "ProjectedCRS" \/ fails THEN Null(m)
       ELSE LET m1 == newInstance(m, alterParametersLinearUnit(
                                         v, createLinearUnit(linear_units),
                                         convert_to_new_unit = 1),
                                  m.store[m.heap[obj].obj].part)
            IN PJ_OBJ_create(m1, m1.ret)

\* what an alteration function leaves alone
AlterFrame ==
    UNCHANGED <<dbOpenable, gridsAvail, cpp_context, fctx, asked, nset, crashed,
                objlist, uom, held>>

proj_obj_alter_name ==
    /\ ~crashed
    /\ Room(1, 1)
    /\ \E obj \in liveHandles, name \in NameArgs, fails \in BOOLEAN :
        Gives("proj_obj_alter_name", obj, name,
              alterNameMemory(Memory, obj, name, fails))
    /\ AlterFrame

proj_obj_crs_alter_geodetic_crs ==
    /\ ~crashed
    /\ Room(1, 1)
    /\ \E obj \in liveHandles, new_geod_crs \in liveHandles, fails \in BOOLEAN :
        Gives("proj_obj_crs_alter_geodetic_crs", obj, "",
              alterGeodeticCRSMemory(Memory, obj, new_geod_crs, fails))
    /\ AlterFrame

proj_obj_crs_alter_cs_angular_unit ==
    /\ ~crashed
    /\ Room(2, 2)
    /\ \E obj \in liveHandles, angular_units \in AngularUnitArgs, fails \in BOOLEAN :
        Gives("proj_obj_crs_alter_cs_angular_unit", obj, angular_units,
              alterCSAngularUnitMemory(Memory, obj, angular_units, fails))
    /\ AlterFrame

proj_obj_crs_alter_cs_linear_unit ==
    /\ ~crashed
    /\ Room(1, 1)
    /\ \E obj \in liveHandles, linear_units \in LinearUnitArgs, fails \in BOOLEAN :
        Gives("proj_obj_crs_alter_cs_linear_unit", obj, linear_units,
              alterCSLinearUnitMemory(Memory, obj, linear_units, fails))
    /\ AlterFrame

proj_obj_crs_alter_parameters_linear_unit ==
    /\ ~crashed
    /\ Room(1, 1)
    /\ \E obj \in liveHandles, linear_units \in LinearUnitArgs,
          convert_to_new_unit \in {0, 1}, fails \in BOOLEAN :
        Gives("proj_obj_crs_alter_parameters_linear_unit", obj, linear_units,
              alterParametersLinearUnitMemory(Memory, obj, linear_units,
                                              convert_to_new_unit, fails))
    /\ AlterFrame

NextAlter ==
    \/ proj_obj_create_from_database
    \/ proj_obj_unref
    \/ proj_obj_alter_name
    \/ proj_obj_crs_alter_geodetic_crs
    \/ proj_obj_crs_alter_cs_angular_unit
    \/ proj_obj_crs_alter_cs_linear_unit
    \/ proj_obj_crs_alter_parameters_linear_unit

SpecAlter == Init /\ [][NextAlter]_vars

----------------------------------------------------------------------------
(* AuthorityFactory::createObjectsFromName, from the specification of the  *)
(* catalog                                                                 *)

\* the objects of the catalog that have a name to be found by
NamedCatalog == CatalogCRS \o <<datumNAD, ellipsoidGRS>> \o SubSeq(Catalog, 1, 2)

\* an object is of an AuthorityFactory::ObjectType
objectTypeMatches(t, o) ==
    CASE t = "ELLIPSOID" -> o.type = "Ellipsoid"
      [] t \in {"DATUM", "GEODETIC_REFERENCE_FRAME"} -> o.type = "GeodeticReferenceFrame"
      [] t = "CRS" -> isCRS(o)
      [] t \in {"GEODETIC_CRS", "GEOGRAPHIC_CRS"} -> o.type = "GeographicCRS"
      [] t = "GEOGRAPHIC_2D_CRS" -> o.type = "GeographicCRS" /\ Len(o.axes) = 2
      [] t = "PROJECTED_CRS" -> o.type = "ProjectedCRS"
      [] t = "COORDINATE_OPERATION" -> isCoordinateOperation(o)
      [] t = "TRANSFORMATION" -> o.type = "Transformation"
      [] OTHER -> FALSE

\* a name resembles the searched name without being it
fuzzyMatch(searchedName, name) ==
    /\ searchedName = "NAD"
    /\ name \in {"NAD27", "NAD 27", "NAD_27", "NAD27 / UTM", "NAD27 datum"}

\* at most limit objects of a list, all of them when limit is 0
limited(found, limit) ==
    IF limit = 0 \/ Len(found) <= limit THEN found ELSE SubSeq(found, 1, limit)

\* the objects of the allowed types by that name, or with approximateMatch
\* and none by that name, by a name that resembles it; no allowed type
\* means every type
createObjectsFromName(searchedName, allowedTypes, approximateMatch, limit) ==
    LET allowed(o) ==
            allowedTypes = <<>> \/ \E i \in DOMAIN allowedTypes : objectTypeMatches(allowedTypes[i], o)
        pool == SelectSeq(NamedCatalog, allowed)
        exact == SelectSeq(pool, LAMBDA o : namesSimilar(o.name, searchedName))
        fuzzy == SelectSeq(pool, LAMBDA o : fuzzyMatch(searchedName, o.name))
    IN limited(IF exact # <<>> THEN exact ELSE IF approximateMatch THEN fuzzy ELSE <<>>,
               limit)

----------------------------------------------------------------------------
(* The C API: proj_obj_create_from_name, the PJ_OBJ_LIST functions and the *)
(* component getters                                                       *)

\* convertPJObjectTypeToObjectType: <<cppType, valid>>
convertPJObjectTypeToObjectType(type) ==
    CASE type = "PJ_OBJ_TYPE_ELLIPSOID" -> <<"ELLIPSOID", TRUE>>
      [] type \in {"PJ_OBJ_TYPE_GEODETIC_REFERENCE_FRAME",
                   "PJ_OBJ_TYPE_DYNAMIC_GEODETIC_REFERENCE_FRAME"} ->
            <<"GEODETIC_REFERENCE_FRAME", TRUE>>
      [] type = "PJ_OBJ_TYPE_DATUM_ENSEMBLE" -> <<"DATUM", TRUE>>
      [] type = "PJ_OBJ_TYPE_CRS" -> <<"CRS", TRUE>>
      [] type = "PJ_OBJ_TYPE_GEODETIC_CRS" -> <<"GEODETIC_CRS", TRUE>>
      [] type = "PJ_OBJ_TYPE_GEOGRAPHIC_CRS" -> <<"GEOGRAPHIC_CRS", TRUE>>
      [] type = "PJ_OBJ_TYPE_GEOGRAPHIC_2D_CRS" -> <<"GEOGRAPHIC_2D_CRS", TRUE>>
      [] type = "PJ_OBJ_TYPE_PROJECTED_CRS" -> <<"PROJECTED_CRS", TRUE>>
      [] type \in {"PJ_OBJ_TYPE_ENGINEERING_CRS", "PJ_OBJ_TYPE_TEMPORAL_CRS",
                   "PJ_OBJ_TYPE_BOUND_CRS"} -> <<"CRS", FALSE>>
      [] type = "PJ_OBJ_TYPE_OTHER_CRS" -> <<"CRS", TRUE>>
      [] type = "PJ_OBJ_TYPE_TRANSFORMATION" -> <<"TRANSFORMATION", TRUE>>
      [] type = "PJ_OBJ_TYPE_OTHER_COORDINATE_OPERATION" -> <<"COORDINATE_OPERATION", TRUE>>
      [] type = "PJ_OBJ_TYPE_UNKNOWN" -> <<"CRS", FALSE>>

\* the loop that fills allowedTypes: the valid types, in order
RECURSIVE allowedTypesOf(_)
allowedTypesOf(types) ==
    IF types = <<>> THEN <<>>
    ELSE LET c == convertPJObjectTypeToObjectType(Head(types))
         IN (IF c[2] THEN <<c[1]>> ELSE <<>>) \o allowedTypesOf(Tail(types))

\* the classes of the engine that an object of a class derives from
baseClasses(class) ==
    CASE class = "DynamicGeodeticReferenceFrame" -> {"GeodeticReferenceFrame", "Datum"}
      [] class = "DynamicVerticalReferenceFrame" -> {"VerticalReferenceFrame", "Datum"}
      [] class \in {"GeodeticReferenceFrame", "VerticalReferenceFrame"} -> {"Datum"}
      [] class = "GeographicCRS" -> {"GeodeticCRS", "CRS"}
      [] class \in {"GeodeticCRS", "VerticalCRS", "ProjectedCRS", "CompoundCRS",
                    "TemporalCRS", "EngineeringCRS", "BoundCRS", "ParametricCRS"} -> {"CRS"}
      [] class \in {"Conversion", "Transformation", "ConcatenatedOperation",
                    "PROJBasedOperation"} -> {"CoordinateOperation"}
      [] class \in {"CartesianCS", "EllipsoidalCS", "VerticalCS", "SphericalCS",
                    "OrdinalCS", "ParametricCS", "DateTimeTemporalCS", "TemporalCountCS",
                    "TemporalMeasureCS"} -> {"CoordinateSystem"}
      [] OTHER -> {}

\* dynamic_cast<class *>(ptr) is not null
dynamic_cast(class, o) == o.type = class \/ class \in baseClasses(o.type)

\* GeodeticCRS::isGeocentric: the coordinate system is Cartesian
isGeocentric(o) == o.axes = <<"X", "Y", "Z">>

\* the tests of the reference frames with each base class tested before
\* the class that derives from it
frameTypeBaseFirst(o) ==
    IF dynamic_cast("GeodeticReferenceFrame", o)
    THEN "PJ_OBJ_TYPE_GEODETIC_REFERENCE_FRAME"
    ELSE IF dynamic_cast("DynamicGeodeticReferenceFrame", o)
    THEN "PJ_OBJ_TYPE_DYNAMIC_GEODETIC_REFERENCE_FRAME"
    ELSE IF dynamic_cast("VerticalReferenceFrame", o)
    THEN "PJ_OBJ_TYPE_VERTICAL_REFERENCE_FRAME"
    ELSE IF dynamic_cast("DynamicVerticalReferenceFrame", o)
    THEN "PJ_OBJ_TYPE_DYNAMIC_VERTICAL_REFERENCE_FRAME"
    ELSE ""

\* the tests of proj_obj_get_type for the reference frames, "" when the
\* object is none
frameType(o) ==
    IF dynamic_cast("DynamicGeodeticReferenceFrame", o)
    THEN "PJ_OBJ_TYPE_DYNAMIC_GEODETIC_REFERENCE_FRAME"
    ELSE IF dynamic_cast("GeodeticReferenceFrame", o)
    THEN "PJ_OBJ_TYPE_GEODETIC_REFERENCE_FRAME"
    ELSE IF dynamic_cast("DynamicVerticalReferenceFrame", o)
    THEN "PJ_OBJ_TYPE_DYNAMIC_VERTICAL_REFERENCE_FRAME"
    ELSE IF dynamic_cast("VerticalReferenceFrame", o)
    THEN "PJ_OBJ_TYPE_VERTICAL_REFERENCE_FRAME"
    ELSE ""

\* proj_obj_get_type: the tests in the order of the code
proj_obj_get_type(o) ==
    IF dynamic_cast("Ellipsoid", o) THEN "PJ_OBJ_TYPE_ELLIPSOID"
    ELSE IF dynamic_cast("PrimeMeridian", o) THEN "PJ_OBJ_TYPE_PRIME_MERIDIAN"
    ELSE IF frameType(o) # "" THEN frameType(o)
    ELSE IF dynamic_cast("DatumEnsemble", o) THEN "PJ_OBJ_TYPE_DATUM_ENSEMBLE"
    ELSE IF dynamic_cast("GeographicCRS", o)
    THEN IF Len(o.axes) = 2 THEN "PJ_OBJ_TYPE_GEOGRAPHIC_2D_CRS"
         ELSE "PJ_OBJ_TYPE_GEOGRAPHIC_3D_CRS"
    ELSE IF dynamic_cast("GeodeticCRS", o)
    THEN IF isGeocentric(o) THEN "PJ_OBJ_TYPE_GEOCENTRIC_CRS"
         ELSE "PJ_OBJ_TYPE_GEODETIC_CRS"
    ELSE IF dynamic_cast("VerticalCRS", o) THEN "PJ_OBJ_TYPE_VERTICAL_CRS"
    ELSE IF dynamic_cast("ProjectedCRS", o) THEN "PJ_OBJ_TYPE_PROJECTED_CRS"
    ELSE IF dynamic_cast("CompoundCRS", o) THEN "PJ_OBJ_TYPE_COMPOUND_CRS"
    ELSE IF dynamic_cast("TemporalCRS", o) THEN "PJ_OBJ_TYPE_TEMPORAL_CRS"
    ELSE IF dynamic_cast("EngineeringCRS", o) THEN "PJ_OBJ_TYPE_ENGINEERING_CRS"
    ELSE IF dynamic_cast("BoundCRS", o) THEN "PJ_OBJ_TYPE_BOUND_CRS"
    ELSE IF dynamic_cast("CRS", o) THEN "PJ_OBJ_TYPE_OTHER_CRS"
    ELSE IF dynamic_cast("Conversion", o) THEN "PJ_OBJ_TYPE_CONVERSION"
    ELSE IF dynamic_cast("Transformation", o) THEN "PJ_OBJ_TYPE_TRANSFORMATION"
    ELSE IF dynamic_cast("ConcatenatedOperation", o)
    THEN "PJ_OBJ_TYPE_CONCATENATED_OPERATION"
    ELSE IF dynamic_cast("CoordinateOperation", o)
    THEN "PJ_OBJ_TYPE_OTHER_COORDINATE_OPERATION"
    ELSE "PJ_OBJ_TYPE_UNKNOWN"

\* the types arrays of the calls: <<>> is types = NULL, typesCount = 0
TypesArgs ==
    << <<>>,
       <<"PJ_OBJ_TYPE_GEOGRAPHIC_2D_CRS">>,
       <<"PJ_OBJ_TYPE_PROJECTED_CRS", "PJ_OBJ_TYPE_ELLIPSOID">>,
       <<"PJ_OBJ_TYPE_GEODETIC_REFERENCE_FRAME">>,
       <<"PJ_OBJ_TYPE_BOUND_CRS">>,
       <<"PJ_OBJ_TYPE_BOUND_CRS", "PJ_OBJ_TYPE_ELLIPSOID">> >>

SearchedNameArgs == {"NAD27", "NAD", "GRS 1980", "Atlantis"}
LimitArgs == {0, 1, 2}

\* the instances a list of values takes
RECURSIVE instancesOfAll(_)
instancesOfAll(vals) ==
    IF vals = <<>> THEN 0 ELSE instancesOf(Head(vals)) + instancesOfAll(Tail(vals))

\* objects.push_back(obj) for each object found: the list holds a shared
\* pointer to each; <<memory, objects>>
RECURSIVE pushAll(_, _, _)
pushAll(m, objects, vals) ==
    IF vals = <<>> THEN <<m, objects>>
    ELSE LET m1 == newInstances(m, Head(vals))
             m2 == [m1 EXCEPT !.store[m1.ret].rc = @ + 1]
         IN pushAll(m2, Append(objects, m1.ret), Tail(vals))

proj_obj_create_from_name ==
    /\ ~crashed
    /\ objlist = <<>>
    /\ calls < MaxCalls
    /\ calls' = calls + 1
    /\ \E ctx \in CtxArgs, searchedName \in SearchedNameArgs, t \in DOMAIN TypesArgs,
          approximateMatch \in {0, 1}, limitResultCount \in LimitArgs :
        /\ SANITIZE_CTX(ctx) = "default"
        /\ cpp_context' = getDBcontext(cpp_context)
        /\ IF getDBcontext(cpp_context) = "open"
           THEN LET found == createObjectsFromName(searchedName,
                                                   allowedTypesOf(TypesArgs[t]),
                                                   approximateMatch # 0, limitResultCount)
                    pushed == pushAll(Memory, <<>>, found)
                IN /\ Room(0, instancesOfAll(found))
                   /\ heap' = heap
                   /\ store' = pushed[1].store
                   /\ objlist' = <<pushed[2]>>
                   /\ res' = [Call("proj_obj_create_from_name", NoObj, NoObj, t, FALSE,
                                   found, <<>>, approximateMatch)
                              EXCEPT !.str = searchedName]
           ELSE /\ UNCHANGED <<heap, store, objlist>>
                /\ res' = [Call("proj_obj_create_from_name", NoObj, NoObj, t, TRUE,
                                <<>>, <<>>, approximateMatch)
                           EXCEPT !.str = searchedName]
    /\ UNCHANGED <<dbOpenable, gridsAvail, fctx, asked, nset, crashed, uom, held>>

\* what a function on handles leaves alone
HandleFrame ==
    UNCHANGED <<dbOpenable, gridsAvail, cpp_context, fctx, asked, nset, crashed,
                objlist, uom, held>>

\* the index is one of the list, one past its end or negative
proj_obj_list_get ==
    /\ ~crashed
    /\ objlist # <<>>
    /\ Room(1, 0)
    /\ \E index \in -1 .. Len(objlist[1]) :
        IF index < 0 \/ index >= Len(objlist[1])
        THEN Gives("proj_obj_list_get", index, "", Memory)
        ELSE Gives("proj_obj_list_get", index, "", PJ_OBJ_create(Memory, objlist[1][index + 1]))
    /\ HandleFrame

\* delete result: the shared pointers of the list go away
RECURSIVE releaseAll(_, _)
releaseAll(st, objects) ==
    IF objects = <<>> THEN st ELSE releaseAll(release(st, Head(objects)), Tail(objects))

proj_obj_list_unref ==
    /\ ~crashed
    /\ objlist # <<>>
    /\ calls < MaxCalls
    /\ calls' = calls + 1
    /\ store' = releaseAll(store, objlist[1])
    /\ objlist' = <<>>
    /\ res' = Call("proj_obj_list_unref", NoObj, NoObj, 0, FALSE, <<>>, <<>>, 0)
    /\ UNCHANGED <<dbOpenable, gridsAvail, cpp_context, fctx, asked, nset, crashed,
                   heap, uom, held>>

proj_obj_crs_get_geodetic_crs ==
    /\ ~crashed
    /\ Room(1, 0)
    /\ \E crs \in liveHandles :
        IF extractGeodeticCRS(Memory, crs) = 0
        THEN Gives("proj_obj_crs_get_geodetic_crs", crs, "", Memory)
        ELSE Gives("proj_obj_crs_get_geodetic_crs", crs, "",
                   PJ_OBJ_create(Memory, extractGeodeticCRS(Memory, crs)))
    /\ HandleFrame

\* SingleCRS::datum(): the datum of a GeographicCRS, and of a ProjectedCRS
\* that of its base CRS; 0 for an object that is not a SingleCRS
datumOf(m, crs) ==
    LET geod == extractGeodeticCRS(m, crs)
    IN IF geod = 0 THEN 0 ELSE m.store[geod].part

proj_obj_crs_get_datum ==
    /\ ~crashed
    /\ Room(1, 0)
    /\ \E crs \in liveHandles :
        IF datumOf(Memory, crs) = 0
        THEN Gives("proj_obj_crs_get_datum", crs, "", Memory)
        ELSE Gives("proj_obj_crs_get_datum", crs, "", PJ_OBJ_create(Memory, datumOf(Memory, crs)))
    /\ HandleFrame

NextOwn ==
    \/ proj_obj_create_from_name
    \/ proj_obj_list_get
    \/ proj_obj_list_unref
    \/ proj_obj_clone
    \/ proj_obj_crs_get_geodetic_crs
    \/ proj_obj_crs_get_datum
    \/ proj_obj_unref

SpecOwn == Init /\ [][NextOwn]_vars

----------------------------------------------------------------------------
(* Text: exportToWKT, exportToPROJString and the parsers, from the         *)
(* specification of the text codec.  A text is the object as far as the    *)
(* convention writes it down; <<>> stands for no text.                     *)

WKT2Types == {"PJ_WKT2_2018"}
WKT1Types == {"PJ_WKT1_GDAL", "PJ_WKT1_ESRI"}
PROJStringTypes == {"PJ_PROJ_5", "PJ_PROJ_4"}

\* the name of an object in the legacy vendor dialect
esriName(name) == "GCS_" \o name

\* the convention has a representation of the object
supportsWKT(e, convention) ==
    /\ e.type # ""
    /\ isCoordinateOperation(e) => convention \in WKT2Types

\* the axes a text carries under an axis rule: in AUTO mode those of the
\* WKT2 variants, those of a ProjectedCRS with easting/northing order in
\* WKT1_GDAL, none in WKT1_ESRI
axesWritten(e, convention, rule) ==
    CASE rule = "YES" -> e.axes
      [] rule = "NO" -> <<>>
      [] OTHER ->
            IF convention \in WKT2Types THEN e.axes
            ELSE IF convention = "PJ_WKT1_GDAL" /\ e.type = "ProjectedCRS"
                    /\ e.axes = <<"E", "N">> THEN e.axes
            ELSE <<>>

\* what a WKT text says of an object: WKT1 has no extent, the legacy vendor
\* dialect no identifiers and names of its own
RECURSIVE wktNode(_, _, _)
wktNode(e, convention, rule) ==
    [e EXCEPT !.name = IF convention = "PJ_WKT1_ESRI" THEN esriName(e.name) ELSE e.name,
              !.ids = IF convention = "PJ_WKT1_ESRI" THEN <<>> ELSE e.ids,
              !.area = IF convention \in WKT2Types THEN e.area ELSE {},
              !.axes = axesWritten(e, convention, rule),
              !.comp = [i \in DOMAIN e.comp |-> wktNode(e.comp[i], convention, rule)]]

\* IWKTExportable::exportToWKT: <<text>>, or <<>> for FormattingNotSupported
exportToWKT(e, convention, rule) ==
    IF supportsWKT(e, convention)
    THEN <<[convention |-> convention, node |-> wktNode(e, convention, rule), proj |-> ""]>>
    ELSE <<>>

\* what a PROJ string says of an object: no names but that of the datum,
\* no identifiers, no extent, and the axes in PROJ_5 only
RECURSIVE projNode(_, _)
projNode(e, convention) ==
    [e EXCEPT !.name = IF e.type = "GeodeticReferenceFrame" THEN e.name ELSE "unknown",
              !.ids = <<>>,
              !.area = {},
              !.axes = IF convention = "PJ_PROJ_5" THEN e.axes ELSE <<>>,
              !.comp = [i \in DOMAIN e.comp |-> projNode(e.comp[i], convention)]]

\* the +proj= keyword of the conversion of a UTM ProjectedCRS: utm unless
\* the formatter has been told whether to use etmerc for tmerc
projKeyword(e, useETMercForTMerc) ==
    IF e.type # "ProjectedCRS" THEN ""
    ELSE CASE useETMercForTMerc = "YES" -> "etmerc"
           [] useETMercForTMerc = "NO" -> "tmerc"
           [] OTHER -> "utm"

\* IPROJStringExportable::exportToPROJString
exportToPROJString(e, convention, useETMercForTMerc) ==
    <<[convention |-> convention, node |-> projNode(e, convention),
       proj |-> projKeyword(e, useETMercForTMerc)]>>

\* the orders of axes a parser may take a geographic CRS without axes to be in
AssumedAxes == {LatLon, LonLat}

\* the name a parser gives: that of the catalog for a name of the legacy
\* vendor dialect when a catalog is attached and has it, the literal name
\* otherwise
resolveName(name, convention, attached) ==
    LET known == {i \in DOMAIN NamedCatalog : esriName(NamedCatalog[i].name) = name}
    IN IF convention = "PJ_WKT1_ESRI" /\ attached /\ known # {}
       THEN NamedCatalog[Min(known)].name
       ELSE name

\* the object a node of a text stands for
RECURSIVE parseNode(_, _, _, _)
parseNode(node, convention, attached, assumed) ==
    [node EXCEPT !.name = resolveName(node.name, convention, attached),
                 !.axes = IF node.axes # <<>> THEN node.axes
                          ELSE IF node.type = "GeographicCRS" THEN assumed
                          ELSE IF node.type = "ProjectedCRS" THEN <<"E", "N">>
                          ELSE <<>>,
                 !.comp = [i \in DOMAIN node.comp |->
                              parseNode(node.comp[i], convention, attached, assumed)]]

\* a text that is none of an object
Malformed == [convention |-> "PJ_WKT2_2018", node |-> NoObj, proj |-> ""]

\* an object code such as "EPSG:4326"
CodeText(auth_name, code) ==
    [convention |-> "CODE", proj |-> "",
     node |-> [NoObj EXCEPT !.type = "Code", !.ids = <<<<auth_name, code>>>>]]

\* WKTParser::createFromWKT, PROJStringParser::createFromPROJString: the
\* object of a text in one of the conventions of the parser, NoObj for a
\* ParseError
parse(text, conventions, attached, assumed) ==
    IF text.node.type = "" \/ text.convention \notin conventions THEN NoObj
    ELSE parseNode(text.node, text.convention, attached, assumed)

\* createFromUserInput: a code is looked up in the catalog and fails without
\* one, a text is parsed
createFromUserInput(text, attached, assumed) ==
    IF text.convention = "CODE"
    THEN LET found == createFromCode(text.node.ids[1][1], text.node.ids[1][2],
                                     PJ_OBJ_CATEGORY_CRS)
         IN IF attached /\ found # <<>> THEN found[1] ELSE NoObj
    ELSE parse(text, WKT2Types \cup WKT1Types \cup PROJStringTypes, attached, assumed)

----------------------------------------------------------------------------
(* The C API: proj_obj_as_wkt, proj_obj_as_proj_string and the functions   *)
(* that create an object from text                                         *)

WktTypeArgs == WKT2Types \cup WKT1Types
WktOptionArgs == {"NULL", "OUTPUT_AXIS=YES", "OUTPUT_AXIS=NO", "BOGUS=YES"}

\* the rule of the other value of the option
outputAxisRuleInverted(options) ==
    CASE options = "OUTPUT_AXIS=YES" -> "NO"
      [] options = "OUTPUT_AXIS=NO" -> "YES"
      [] OTHER -> "AUTO"

\* formatter->setOutputAxis for the OUTPUT_AXIS option
outputAxisRule(options) ==
    CASE options = "OUTPUT_AXIS=YES" -> "YES"
      [] options = "OUTPUT_AXIS=NO" -> "NO"
      [] OTHER -> "AUTO"

\* dynamic_cast<const IPROJStringExportable *>(obj) is not null
isPROJStringExportable(e) == isCRS(e) \/ isCoordinateOperation(e) \/ e.type = "Ellipsoid"

\* a text written into the buffer although the option is not known
asWktUnknownOption(obj, type, options) ==
    exportToWKT(valueOf(Memory, obj), type, outputAxisRule(options))

\* the text proj_obj_as_wkt writes into obj->lastWKT, <<>> when it returns
\* NULL before: for an option it does not know, and when exportToWKT throws
asWkt(obj, type, options) ==
    IF options = "BOGUS=YES" THEN <<>>
    ELSE exportToWKT(valueOf(Memory, obj), type, outputAxisRule(options))

proj_obj_as_wkt ==
    /\ ~crashed
    /\ calls < MaxCalls
    /\ calls' = calls + 1
    /\ \E obj \in liveHandles, type \in WktTypeArgs, options \in WktOptionArgs :
        LET text == asWkt(obj, type, options)
        IN /\ cpp_context' = getDBcontext(cpp_context)
           /\ res' = [Call("proj_obj_as_wkt", NoObj, NoObj, obj, text = <<>>, <<>>, <<>>, 0)
                      EXCEPT !.str = type, !.opt = options]
           /\ heap' = IF text = <<>> THEN heap ELSE [heap EXCEPT ![obj].lastWKT = text]
    /\ UNCHANGED <<dbOpenable, gridsAvail, fctx, asked, nset, crashed, store, objlist,
                   uom, held>>

\* a PROJ string written into the buffer of the WKT
projStringBufferWkt(hp, obj, text) == [hp EXCEPT ![obj].lastWKT = text]

\* obj->lastPROJString = ...
projStringBuffer(hp, obj, text) == [hp EXCEPT ![obj].lastPROJString = text]

\* the options lists passed, without their terminating NULL; <<>> is also
\* a NULL list
EtmercOptionArgs ==
    <<<<>>, <<"USE_ETMERC=YES">>, <<"USE_ETMERC=NO">>, <<"MULTILINE=NO", "USE_ETMERC=YES">>>>

\* formatter->setUseETMercForTMerc for options[0]
useETMerc(options) ==
    IF options = <<>> THEN "unset"
    ELSE CASE options[1] = "USE_ETMERC=YES" -> "YES"
           [] options[1] = "USE_ETMERC=NO" -> "NO"
           [] OTHER -> "unset"

\* res.val: the position in EtmercOptionArgs of the options list passed
proj_obj_as_proj_string ==
    /\ ~crashed
    /\ calls < MaxCalls
    /\ calls' = calls + 1
    /\ \E obj \in liveHandles, type \in PROJStringTypes, fails \in BOOLEAN,
          options \in DOMAIN EtmercOptionArgs :
        LET exportable == isPROJStringExportable(valueOf(Memory, obj))
            text == exportToPROJString(valueOf(Memory, obj), type,
                                       useETMerc(EtmercOptionArgs[options]))
        IN /\ fails => exportable
           /\ cpp_context' = IF exportable THEN getDBcontext(cpp_context) ELSE cpp_context
           /\ res' = [Call("proj_obj_as_proj_string", NoObj, NoObj, obj,
                           ~exportable \/ fails, <<>>, <<>>, options)
                      EXCEPT !.str = type]
           /\ heap' = IF ~exportable \/ fails THEN heap
                      ELSE projStringBuffer(heap, obj, text)
    /\ UNCHANGED <<dbOpenable, gridsAvail, fctx, asked, nset, crashed, store, objlist,
                   uom, held>>

\* the strings the caller may pass: some it has written itself, and those
\* it has been given by objects that are still there
WktArgs ==
    {exportToWKT(crsASwap, "PJ_WKT2_2018", "AUTO")[1],
     exportToWKT(crsA, "PJ_WKT1_ESRI", "AUTO")[1], Malformed}
ProjStringArgs == {exportToPROJString(utmA, "PJ_PROJ_4", "unset")[1], Malformed}
UserInputArgs == WktArgs \cup ProjStringArgs \cup {CodeText("EPSG", "A")}
lastWKTs == {heap[h].lastWKT[1] : h \in {g \in liveHandles : heap[g].lastWKT # <<>>}}
lastPROJStrings ==
    {heap[h].lastPROJString[1] : h \in {g \in liveHandles : heap[g].lastPROJString # <<>>}}

\* the result of a function that creates an object from text
Parsed(fn, text, options, ret) ==
    [Call(fn, text.node, NoObj, 0, ret = 0, <<>>, <<>>, ret)
     EXCEPT !.str = text.convention, !.opt = options]

\* the end of a function that creates an object from text: a new PJ_OBJ
\* on the object, or NULL when there is none
createFromTextMemory(v) ==
    IF v = NoObj THEN Memory
    ELSE LET m == newInstances(Memory, v) IN PJ_OBJ_create(m, m.ret)

\* a function that gives up when there is no database context
createFromTextWithCatalog(fn, text, options, v) ==
    /\ cpp_context' = getDBcontext(cpp_context)
    /\ calls < MaxCalls
    /\ calls' = calls + 1
    /\ v # NoObj => Room(1, instancesOf(v))
    /\ LET m == IF getDBcontextNoException(cpp_context) THEN createFromTextMemory(v)
                ELSE Memory
       IN /\ heap' = m.heap
          /\ store' = m.store
          /\ res' = Parsed(fn, text, options, m.ret)
    /\ UNCHANGED <<dbOpenable, gridsAvail, fctx, asked, nset, crashed, objlist, uom, held>>

\* a function that creates an object from text, given the object v the
\* parser makes of the text (NoObj when it throws)
createFromText(fn, text, options, v) ==
    /\ cpp_context' = getDBcontext(cpp_context)
    /\ calls < MaxCalls
    /\ calls' = calls + 1
    /\ v # NoObj => Room(1, instancesOf(v))
    /\ LET m == createFromTextMemory(v)
       IN /\ heap' = m.heap
          /\ store' = m.store
          /\ res' = Parsed(fn, text, options, m.ret)
    /\ UNCHANGED <<dbOpenable, gridsAvail, fctx, asked, nset, crashed, objlist, uom, held>>

proj_obj_create_from_wkt ==
    /\ ~crashed
    /\ \E wkt \in WktArgs \cup lastWKTs, assumed \in AssumedAxes :
        createFromText("proj_obj_create_from_wkt", wkt, "NULL",
                          parse(wkt, WKT2Types \cup WKT1Types,
                                getDBcontextNoException(cpp_context), assumed))

proj_obj_create_from_proj_string ==
    /\ ~crashed
    /\ \E proj_string \in ProjStringArgs \cup lastPROJStrings, assumed \in AssumedAxes :
        createFromText("proj_obj_create_from_proj_string", proj_string, "NULL",
                          parse(proj_string, PROJStringTypes,
                                getDBcontextNoException(cpp_context), assumed))

\* an option the function does not know makes it return NULL
proj_obj_create_from_user_input ==
    /\ ~crashed
    /\ \E text \in UserInputArgs, options \in {"NULL", "BOGUS=YES"},
          assumed \in AssumedAxes :
        createFromText("proj_obj_create_from_user_input", text, options,
                          IF options = "BOGUS=YES" THEN NoObj
                          ELSE createFromUserInput(text, getDBcontextNoException(cpp_context),
                                                   assumed))

NextText ==
    \/ proj_obj_create_from_database
    \/ proj_obj_as_wkt
    \/ proj_obj_as_proj_string
    \/ proj_obj_create_from_wkt
    \/ proj_obj_unref

SpecText == Init /\ [][NextText]_vars

\* proj_obj_identify and proj_obj_create_from_name take no handle and leave
\* the handles alone: here they are called before the first handle is made
identifyFirst == calls = 0 /\ proj_obj_identify
createFromNameFirst == calls = 0 /\ proj_obj_create_from_name

NextParse ==
    \/ proj_obj_create_from_wkt
    \/ proj_obj_create_from_proj_string
    \/ proj_obj_create_from_user_input
    \/ proj_obj_create_from_database
    \/ createFromNameFirst
    \/ identifyFirst
    \/ proj_obj_unref

SpecParse == Init /\ [][NextParse]_vars

----------------------------------------------------------------------------
(* The C API: the grids an operation needs, and accessors *)

\* the grids of a list, one after the other
RECURSIVE gridList(_)
gridList(grids) ==
    IF grids = {} THEN <<>>
    ELSE LET g == CHOOSE x \in grids : TRUE
         IN <<g>> \o gridList(grids \ {g})

\* a query whose mark is made once the query has succeeded
gridUsedCountMarkedAfter(hp, obj, fails) ==
    IF hp[obj].gridsNeededAsked THEN hp
    ELSE IF fails THEN [hp EXCEPT ![obj].queries = @ + 1]
    ELSE [hp EXCEPT ![obj].gridsNeededAsked = TRUE,
                    ![obj].queries = @ + 1,
                    ![obj].gridsNeeded = @ \o gridList(gridsNeeded(valueOf(Memory, obj)))]

\* the try block of proj_coordoperation_get_grid_used_count: the heap after
\* it. The object is marked as asked before gridsNeeded is called, which
\* throws when fails.
gridUsedCount(hp, obj, fails) ==
    IF hp[obj].gridsNeededAsked THEN hp
    ELSE IF fails THEN [hp EXCEPT ![obj].gridsNeededAsked = TRUE, ![obj].queries = @ + 1]
    ELSE [hp EXCEPT ![obj].gridsNeededAsked = TRUE,
                    ![obj].queries = @ + 1,
                    ![obj].gridsNeeded = @ \o gridList(gridsNeeded(valueOf(Memory, obj)))]

\* what proj_coordoperation_get_grid_used_count returns
gridUsedCountResult(hp, obj, fails) ==
    IF fails /\ ~hp[obj].gridsNeededAsked THEN 0 ELSE Len(gridUsedCount(hp, obj, fails)[obj].gridsNeeded)

\* the result of a call on the grids: whether the list was there already
\* or has been asked for, and the number returned
Asked(fn, obj, val, str) ==
    [Call(fn, NoObj, NoObj, obj, FALSE, <<>>, <<>>, val)
     EXCEPT !.str = str,
            !.opt = IF heap[obj].gridsNeededAsked THEN "cached" ELSE "asked"]

proj_coordoperation_get_grid_used_count ==
    /\ ~crashed
    /\ calls < MaxCalls
    /\ calls' = calls + 1
    /\ \E coordoperation \in liveHandles, fails \in BOOLEAN :
        IF ~isCoordinateOperation(valueOf(Memory, coordoperation))
        THEN /\ ~fails
             /\ res' = [Call("proj_coordoperation_get_grid_used_count", NoObj, NoObj,
                             coordoperation, FALSE, <<>>, <<>>, 0) EXCEPT !.opt = "none"]
             /\ UNCHANGED <<heap, cpp_context>>
        ELSE /\ fails => ~heap[coordoperation].gridsNeededAsked
             /\ cpp_context' = getDBcontext(cpp_context)
             /\ heap' = gridUsedCount(heap, coordoperation, fails)
             /\ res' = Asked("proj_coordoperation_get_grid_used_count", coordoperation,
                             gridUsedCountResult(heap, coordoperation, fails), "")
    /\ UNCHANGED <<dbOpenable, gridsAvail, fctx, asked, nset, crashed, store, objlist,
                   uom, held>>

\* the index is one of the list, one past its end or negative; the short
\* name of the grid is the string returned
proj_coordoperation_get_grid_used ==
    /\ ~crashed
    /\ calls < MaxCalls
    /\ calls' = calls + 1
    /\ \E coordoperation \in liveHandles, index \in -1 .. 1, fails \in BOOLEAN :
        IF ~isCoordinateOperation(valueOf(Memory, coordoperation))
        THEN /\ ~fails
             /\ res' = [Call("proj_coordoperation_get_grid_used", NoObj, NoObj,
                             coordoperation, FALSE, <<>>, <<>>, 0) EXCEPT !.opt = "none"]
             /\ UNCHANGED <<heap, cpp_context>>
        ELSE LET count == gridUsedCountResult(heap, coordoperation, fails)
                 hp == gridUsedCount(heap, coordoperation, fails)
             IN /\ fails => ~heap[coordoperation].gridsNeededAsked
                /\ cpp_context' = getDBcontext(cpp_context)
                /\ heap' = hp
                /\ res' = IF index < 0 \/ index >= count
                          THEN Asked("proj_coordoperation_get_grid_used", coordoperation, 0, "")
                          ELSE Asked("proj_coordoperation_get_grid_used", coordoperation, 1,
                                     hp[coordoperation].gridsNeeded[index + 1])
    /\ UNCHANGED <<dbOpenable, gridsAvail, fctx, asked, nset, crashed, store, objlist,
                   uom, held>>

\* proj_obj_get_name: the name of the object, a string of the object itself
proj_obj_get_name ==
    /\ ~crashed
    /\ calls < MaxCalls
    /\ calls' = calls + 1
    /\ \E obj \in liveHandles :
        res' = [Call("proj_obj_get_name", NoObj, NoObj, obj, FALSE, <<>>, <<>>, 0)
                EXCEPT !.str = valueOf(Memory, obj).name]
    /\ UNCHANGED <<dbOpenable, gridsAvail, cpp_context, fctx, asked, nset, crashed, heap,
                   store, objlist, uom, held>>

NextCache ==
    \/ proj_obj_create_from_database
    \/ proj_obj_as_wkt
    \/ proj_obj_as_proj_string
    \/ proj_coordoperation_get_grid_used_count
    \/ proj_coordoperation_get_grid_used
    \/ proj_obj_get_name
    \/ proj_obj_clone
    \/ proj_obj_unref

SpecCache == Init /\ [][NextCache]_vars

----------------------------------------------------------------------------
(* The C API: what a function does with its ctx argument *)

\* the units of measure of the database, by code
UnitOfMeasure == [name |-> "", type |-> ""]

\* AuthorityFactory::createUnitOfMeasure: the unit of a code, none when
\* there is no such code
createUnitOfMeasure(auth_name, code) ==
    IF auth_name # "EPSG" THEN <<>>
    ELSE CASE code = "9001" -> <<[UnitOfMeasure EXCEPT !.name = "metre", !.type = "LINEAR"]>>
           [] code = "9102" -> <<[UnitOfMeasure EXCEPT !.name = "degree", !.type = "ANGULAR"]>>
           [] OTHER -> <<>>

\* get_unit_category
get_unit_category(type) ==
    CASE type = "LINEAR" -> "linear"
      [] type = "ANGULAR" -> "angular"
      [] OTHER -> "unknown"

UomArgs == {<<"EPSG", "9001">>, <<"EPSG", "9102">>, <<"EPSG", "none">>}

\* a call that takes a ctx: the ctx passed, and whether the function
\* replaced a NULL by the default context before it used ctx
CtxCall(fn, ctx, use, val) ==
    [Call(fn, NoObj, NoObj, 0, FALSE, <<>>, <<>>, val) EXCEPT !.str = ctx, !.opt = use]

\* ctx->cpp_context->lastUOMName_ = obj->name(), when out_name is given
lastUOMName(last, out_name, name) == IF out_name THEN name ELSE last

\* out_name: true when the caller passes a pointer, false for NULL
proj_uom_get_info_from_database ==
    /\ ~crashed
    /\ calls < MaxCalls
    /\ \E ctx \in CtxArgs, args \in UomArgs, out_name \in BOOLEAN :
        LET ctx1 == SANITIZE_CTX(ctx)
            opened == getDBcontext(cpp_context) = "open"
            obj == createUnitOfMeasure(args[1], args[2])
        IN /\ cpp_context' = getDBcontext(cpp_context)
           /\ IF opened /\ obj # <<>>
              THEN /\ uom' = lastUOMName(uom, out_name, obj[1].name)
                   /\ held' = IF out_name THEN [valid |-> TRUE, text |-> uom']
                              ELSE held
                   /\ res' = [CtxCall("proj_uom_get_info_from_database", ctx,
                                      "sanitized", 1)
                                 EXCEPT !.n = IF out_name THEN 1 ELSE 0]
              ELSE /\ res' = [CtxCall("proj_uom_get_info_from_database", ctx,
                                      "sanitized", 0)
                                 EXCEPT !.n = IF out_name THEN 1 ELSE 0]
                   /\ UNCHANGED <<uom, held>>
    /\ calls' = calls + 1
    /\ UNCHANGED <<dbOpenable, gridsAvail, fctx, asked, nset, crashed, heap, store,
                   objlist>>

\* the dbPath argument: NULL for the default database, or a file that
\* cannot be opened
DbPathArgs == {"NULL", "missing.db"}

\* new projCppContext(ctx, dbPath, auxDbPaths) returns
opens(dbPath) == dbPath = "NULL" /\ dbOpenable

\* a pointer left as it is after delete: it points to a destroyed
\* projCppContext
cppContextAfterDeleteKept(cpp) == IF cpp = "null" THEN "null" ELSE "destroyed"

\* delete ctx->cpp_context; ctx->cpp_context = nullptr;
cppContextAfterDelete(cpp) == "null"

\* delete ctx->cpp_context destroys lastUOMName_, and with it the buffer a
\* string given in *out_name points into; when new projCppContext throws,
\* cpp_context keeps the value it has after the delete
proj_context_set_database_path ==
    /\ ~crashed
    /\ calls < MaxCalls
    /\ \E ctx \in CtxArgs, dbPath \in DbPathArgs :
        /\ cpp_context' = IF opens(dbPath) THEN "open"
                          ELSE cppContextAfterDelete(cpp_context)
        /\ uom' = ""
        /\ held' = IF cpp_context = "null" THEN held ELSE [held EXCEPT !.valid = FALSE]
        /\ res' = [CtxCall("proj_context_set_database_path", ctx, "sanitized",
                           IF opens(dbPath) THEN 1 ELSE 0)
                      EXCEPT !.n = IF dbPath = "NULL" THEN 0 ELSE 1]
    /\ calls' = calls + 1
    /\ UNCHANGED <<dbOpenable, gridsAvail, fctx, asked, nset, crashed, heap, store,
                   objlist>>

\* the axis descriptions passed: an array of size axis_count
AxisArgs == <<"E", "N", "up">>

\* the coordinate system proj_obj_create_cs makes, <<>> when axis_count is
\* wrong for the type or the type is unknown
createCS(type, axis_count) ==
    LET cs(kind) == <<Obj(kind, "", <<>>, 0, SubSeq(AxisArgs, 1, axis_count), <<>>, {})>>
    IN CASE type = "PJ_CS_TYPE_CARTESIAN" /\ axis_count \in {2, 3} -> cs("CartesianCS")
         [] type = "PJ_CS_TYPE_ELLIPSOIDAL" /\ axis_count \in {2, 3} -> cs("EllipsoidalCS")
         [] type = "PJ_CS_TYPE_VERTICAL" /\ axis_count = 1 -> cs("VerticalCS")
         [] type = "PJ_CS_TYPE_SPHERICAL" /\ axis_count = 3 -> cs("EllipsoidalCS")
         [] type = "PJ_CS_TYPE_PARAMETRIC" /\ axis_count = 1 -> cs("ParametricCS")
         [] type = "PJ_CS_TYPE_ORDINAL" -> cs("OrdinalCS")
         [] type = "PJ_CS_TYPE_DATETIMETEMPORAL" /\ axis_count = 1 -> cs("DateTimeTemporalCS")
         [] type = "PJ_CS_TYPE_TEMPORALCOUNT" /\ axis_count = 1 -> cs("TemporalCountCS")
         [] type = "PJ_CS_TYPE_TEMPORALMEASURE" /\ axis_count = 1 -> cs("TemporalMeasureCS")
         [] OTHER -> <<>>

\* the values of PJ_COORDINATE_SYSTEM_TYPE
CSTypeList ==
    <<"PJ_CS_TYPE_UNKNOWN", "PJ_CS_TYPE_CARTESIAN", "PJ_CS_TYPE_ELLIPSOIDAL",
      "PJ_CS_TYPE_VERTICAL", "PJ_CS_TYPE_SPHERICAL", "PJ_CS_TYPE_ORDINAL",
      "PJ_CS_TYPE_PARAMETRIC", "PJ_CS_TYPE_DATETIMETEMPORAL", "PJ_CS_TYPE_TEMPORALCOUNT",
      "PJ_CS_TYPE_TEMPORALMEASURE">>

\* the arguments of a call of proj_obj_create_cs as res.ints records them:
\* the position of the type in CSTypeList, and axis_count
csArgs(type, axis_count) ==
    <<CHOOSE i \in DOMAIN CSTypeList : CSTypeList[i] = type, axis_count>>

AxisCountArgs == {1, 2}

CSTypeArgs ==
    {"PJ_CS_TYPE_UNKNOWN", "PJ_CS_TYPE_CARTESIAN", "PJ_CS_TYPE_VERTICAL"}

\* a function that makes a coordinate system and uses ctx, as it is given,
\* to log an error: cs is what it makes, <<>> on an error; logs tells
\* whether the error is logged
CreatesCS(fn, ctx, cs, logs, args) ==
    IF cs # <<>>
    THEN /\ Room(1, 1)
         /\ calls < MaxCalls
         /\ calls' = calls + 1
         /\ LET m1 == newInstance(Memory, cs[1], 0)
                m == PJ_OBJ_create(m1, m1.ret)
            IN /\ heap' = m.heap
               /\ store' = m.store
               /\ res' = [CtxCall(fn, ctx, "unused", m.ret)
                             EXCEPT !.a = cs[1], !.ints = args]
         /\ UNCHANGED crashed
    ELSE IF ~logs
    THEN /\ res' = [CtxCall(fn, ctx, "unused", 0) EXCEPT !.null = TRUE, !.ints = args]
         /\ UNCHANGED <<heap, store, calls, crashed>>
    ELSE IF ctx = "NULL"
    THEN \* undefined behaviour: the process stops, or goes on and returns NULL
         /\ \E stops \in BOOLEAN : crashed' = stops
         /\ res' = [CtxCall(fn, ctx, usedAsGiven(ctx), 0)
                       EXCEPT !.null = TRUE, !.ints = args]
         /\ UNCHANGED <<heap, store, calls>>
    ELSE /\ res' = [CtxCall(fn, ctx, usedAsGiven(ctx), 0)
                       EXCEPT !.null = TRUE, !.ints = args]
         /\ UNCHANGED <<heap, store, calls, crashed>>

\* fails: a constructor of the engine throws
proj_obj_create_cs ==
    /\ ~crashed
    /\ \E ctx \in CtxArgs, type \in CSTypeArgs, axis_count \in AxisCountArgs, fails \in BOOLEAN :
        /\ fails => createCS(type, axis_count) # <<>>
        /\ CreatesCS("proj_obj_create_cs", ctx,
                     IF fails THEN <<>> ELSE createCS(type, axis_count),
                     type # "PJ_CS_TYPE_UNKNOWN", csArgs(type, axis_count))
    /\ UNCHANGED <<dbOpenable, gridsAvail, cpp_context, fctx, asked, nset, objlist,
                   uom, held>>

\* CartesianCS::createEastingNorthing, createNorthingEasting in a unit
createCartesian2D(type, unit) ==
    LET axes == IF type = "PJ_CART2D_EASTING_NORTHING" THEN <<"E", "N">> ELSE <<"N", "E">>
    IN Obj("CartesianCS", "", <<>>, 0, alterUnit(axes, unit), <<>>, {})

proj_obj_create_cartesian_2D_cs ==
    /\ ~crashed
    /\ \E ctx \in CtxArgs, unit_name \in LinearUnitArgs, fails \in BOOLEAN,
          type \in {"PJ_CART2D_EASTING_NORTHING", "PJ_CART2D_NORTHING_EASTING"} :
        CreatesCS("proj_obj_create_cartesian_2D_cs", ctx,
                  IF fails THEN <<>>
                  ELSE <<createCartesian2D(type, createLinearUnit(unit_name))>>,
                  TRUE, <<>>)
    /\ UNCHANGED <<dbOpenable, gridsAvail, cpp_context, fctx, asked, nset, objlist,
                   uom, held>>

\* proj_coordoperation_is_instanciable as the first call of a run
isInstanciableFirst == calls = 0 /\ proj_coordoperation_is_instanciable

NextCtx ==
    \/ proj_uom_get_info_from_database
    \/ proj_context_set_database_path
    \/ proj_obj_create_cs
    \/ proj_obj_create_cartesian_2D_cs
    \/ isInstanciableFirst
    \/ proj_obj_unref

SpecCtx == Init /\ [][NextCtx]_vars

----------------------------------------------------------------------------
(* The C API: the components of a CRS *)

\* the codes asked of the database for a CRS with components
ComponentArgs ==
    {<<"EPSG", "AH", PJ_OBJ_CATEGORY_CRS>>, <<"EPSG", "G", PJ_OBJ_CATEGORY_CRS>>,
     <<"EPSG", "H", PJ_OBJ_CATEGORY_CRS>>, <<"EPSG", "U", PJ_OBJ_CATEGORY_CRS>>,
     <<"EPSG", "E1", PJ_OBJ_CATEGORY_ELLIPSOID>>}

\* proj_obj_create_from_database for a code of ComponentArgs
createCRSFromDatabase ==
    /\ ~crashed
    /\ \E args \in ComponentArgs : createFromDatabase(args)

\* the components in the other order
componentReferenceSystemsReversed(m, a) == <<m.store[a].part2, m.store[a].part>>

\* CompoundCRS::componentReferenceSystems: the instances of the components
componentReferenceSystems(m, a) == <<m.store[a].part, m.store[a].part2>>

\* static_cast<size_t>(index) >= components.size(): a negative index is a
\* large unsigned number
subCrsIndexOutOfRange(index, size) == index < 0 \/ index >= size

IndexArgs == -1 .. 2

\* a call that takes an index: res.ints holds the index
GivesAt(fn, h, index, m) ==
    /\ calls < MaxCalls
    /\ calls' = calls + 1
    /\ heap' = m.heap
    /\ store' = m.store
    /\ res' = Call(fn, NoObj, NoObj, h, m.ret = 0, <<>>, <<index>>, m.ret)

proj_obj_crs_get_sub_crs ==
    /\ ~crashed
    /\ Room(1, 0)
    /\ \E crs \in liveHandles, index \in IndexArgs :
        LET a == heap[crs].obj
            components == componentReferenceSystems(Memory, a)
        IN IF store[a].val.type # "CompoundCRS"
           THEN GivesAt("proj_obj_crs_get_sub_crs", crs, index, Memory)
           ELSE IF subCrsIndexOutOfRange(index, Len(components))
           THEN GivesAt("proj_obj_crs_get_sub_crs", crs, index, Memory)
           ELSE GivesAt("proj_obj_crs_get_sub_crs", crs, index,
                        PJ_OBJ_create(Memory, components[index + 1]))
    /\ UNCHANGED <<dbOpenable, gridsAvail, cpp_context, fctx, asked, nset, crashed,
                   objlist, uom, held>>

\* a getter that takes the datum only and has none for an ensemble
horizontalDatumOnly(m, geodCRS) ==
    IF m.store[m.store[geodCRS].part].val.type = "DatumEnsemble" THEN 0
    ELSE m.store[geodCRS].part

\* geodCRS->datum() when there is one, geodCRS->datumEnsemble() otherwise;
\* 0 when the CRS has neither
horizontalDatum(m, geodCRS) ==
    LET comp == m.store[geodCRS].part
        datum == IF comp # 0 /\ m.store[comp].val.type = "GeodeticReferenceFrame"
                 THEN comp ELSE 0
        datumEnsemble == IF comp # 0 /\ m.store[comp].val.type = "DatumEnsemble"
                         THEN comp ELSE 0
    IN IF datum # 0 THEN datum ELSE datumEnsemble

\* res.str tells the error logged, if any
proj_obj_crs_get_horizontal_datum ==
    /\ ~crashed
    /\ Room(1, 0)
    /\ calls < MaxCalls
    /\ calls' = calls + 1
    /\ \E crs \in liveHandles :
        LET geodCRS == extractGeodeticCRS(Memory, crs)
            found == IF geodCRS = 0 THEN 0 ELSE horizontalDatum(Memory, geodCRS)
            m == IF found = 0 THEN Memory ELSE PJ_OBJ_create(Memory, found)
            error == IF ~isCRS(valueOf(Memory, crs)) THEN "Object is not a CRS"
                     ELSE IF geodCRS = 0 THEN "CRS has no geodetic CRS"
                     ELSE IF found = 0 THEN "CRS has no datum"
                     ELSE ""
        IN /\ heap' = m.heap
           /\ store' = m.store
           /\ res' = [Call("proj_obj_crs_get_horizontal_datum", NoObj, NoObj, crs,
                           m.ret = 0, <<>>, <<>>, m.ret) EXCEPT !.str = error]
    /\ UNCHANGED <<dbOpenable, gridsAvail, cpp_context, fctx, asked, nset, crashed,
                   objlist, uom, held>>

NextSub ==
    \/ createCRSFromDatabase
    \/ createFromNameFirst
    \/ proj_obj_list_get
    \/ proj_obj_list_unref
    \/ proj_obj_crs_get_sub_crs
    \/ proj_obj_crs_get_horizontal_datum
    \/ proj_obj_unref

SpecSub == Init /\ [][NextSub]_vars

----------------------------------------------------------------------------
(* The C API: the type of an object and of a coordinate system *)

OfClass(class, o) == [o EXCEPT !.type = class]

\* objects of the classes proj_obj_get_type tells apart
TypeArgs ==
    {ellipsoidGRS, OfClass("PrimeMeridian", ellipsoidGRS),
     datumNAD, OfClass("DynamicGeodeticReferenceFrame", datumNAD),
     verticalDatum, OfClass("DynamicVerticalReferenceFrame", verticalDatum),
     ensembleWGS,
     crsA, [crsA EXCEPT !.axes = <<"lat", "lon", "h">>],
     [OfClass("GeodeticCRS", crsB) EXCEPT !.axes = <<"X", "Y", "Z">>],
     OfClass("GeodeticCRS", crsB),
     crsHeight, utmA, crsCompound,
     OfClass("TemporalCRS", crsHeight), OfClass("EngineeringCRS", crsHeight),
     OfClass("ParametricCRS", crsHeight),
     [OfClass("BoundCRS", crsCompound) EXCEPT !.comp = <<crsA, crsB>>],
     Catalog[1], OfClass("Conversion", Catalog[1]), concatAPB,
     OfClass("PROJBasedOperation", Catalog[1]),
     OfClass("CartesianCS", NoObj)}

\* a call of proj_obj_get_type, as the first call of a run; res.a is the
\* object and res.str the type returned
getTypeFirst ==
    /\ ~crashed
    /\ calls = 0
    /\ \E obj \in TypeArgs :
        res' = [Call("proj_obj_get_type", obj, NoObj, 0, FALSE, <<>>, <<>>, 0)
                   EXCEPT !.str = proj_obj_get_type(obj)]
    /\ UNCHANGED <<dbOpenable, gridsAvail, cpp_context, fctx, asked, nset, crashed>>
    /\ UNCHANGED objVars

\* proj_obj_create_cs with a context as the first call, for every type and
\* 1 to 3 axes
createCSOfEveryType ==
    /\ ~crashed
    /\ calls = 0
    /\ \E i \in DOMAIN CSTypeList, axis_count \in 1..Len(AxisArgs) :
        CreatesCS("proj_obj_create_cs", "default", createCS(CSTypeList[i], axis_count),
                  CSTypeList[i] # "PJ_CS_TYPE_UNKNOWN", <<i, axis_count>>)
    /\ UNCHANGED <<dbOpenable, gridsAvail, cpp_context, fctx, asked, nset, objlist,
                   uom, held>>

\* proj_obj_cs_get_type: the tests in the order of the code
proj_obj_cs_get_type(o) ==
    IF ~dynamic_cast("CoordinateSystem", o) THEN "PJ_CS_TYPE_UNKNOWN"
    ELSE IF dynamic_cast("CartesianCS", o) THEN "PJ_CS_TYPE_CARTESIAN"
    ELSE IF dynamic_cast("EllipsoidalCS", o) THEN "PJ_CS_TYPE_ELLIPSOIDAL"
    ELSE IF dynamic_cast("VerticalCS", o) THEN "PJ_CS_TYPE_VERTICAL"
    ELSE IF dynamic_cast("SphericalCS", o) THEN "PJ_CS_TYPE_SPHERICAL"
    ELSE IF dynamic_cast("OrdinalCS", o) THEN "PJ_CS_TYPE_ORDINAL"
    ELSE IF dynamic_cast("ParametricCS", o) THEN "PJ_CS_TYPE_PARAMETRIC"
    ELSE IF dynamic_cast("DateTimeTemporalCS", o) THEN "PJ_CS_TYPE_DATETIMETEMPORAL"
    ELSE IF dynamic_cast("TemporalCountCS", o) THEN "PJ_CS_TYPE_TEMPORALCOUNT"
    ELSE IF dynamic_cast("TemporalMeasureCS", o) THEN "PJ_CS_TYPE_TEMPORALMEASURE"
    ELSE "PJ_CS_TYPE_UNKNOWN"

\* proj_obj_cs_get_axis_count
proj_obj_cs_get_axis_count(o) ==
    IF ~dynamic_cast("CoordinateSystem", o) THEN -1 ELSE Len(o.axes)

\* a call of proj_obj_cs_get_type on a handle
csGetType ==
    /\ ~crashed
    /\ calls < MaxCalls
    /\ calls' = calls + 1
    /\ \E cs \in liveHandles :
        res' = [Call("proj_obj_cs_get_type", valueOf(Memory, cs), NoObj, cs, FALSE,
                     <<>>, <<>>, 0)
                   EXCEPT !.str = proj_obj_cs_get_type(valueOf(Memory, cs))]
    /\ UNCHANGED <<dbOpenable, gridsAvail, cpp_context, fctx, asked, nset, crashed,
                   heap, store, objlist, uom, held>>

\* a call of proj_obj_cs_get_axis_count on a handle
csGetAxisCount ==
    /\ ~crashed
    /\ calls < MaxCalls
    /\ calls' = calls + 1
    /\ \E cs \in liveHandles :
        res' = Call("proj_obj_cs_get_axis_count", valueOf(Memory, cs), NoObj, cs, FALSE,
                    <<>>, <<>>, proj_obj_cs_get_axis_count(valueOf(Memory, cs)))
    /\ UNCHANGED <<dbOpenable, gridsAvail, cpp_context, fctx, asked, nset, crashed,
                   heap, store, objlist, uom, held>>

\* proj_obj_create_from_database for a code of every category, and for the
\* value 5 of PJ_OBJ_CATEGORY, which is none of the enumerators
CategoryArgs ==
    {<<"EPSG", "E1", PJ_OBJ_CATEGORY_ELLIPSOID>>,
     <<"EPSG", "PM", PJ_OBJ_CATEGORY_PRIME_MERIDIAN>>,
     <<"EPSG", "D1", PJ_OBJ_CATEGORY_DATUM>>,
     <<"EPSG", "A", PJ_OBJ_CATEGORY_CRS>>,
     <<"EPSG", "A", PJ_OBJ_CATEGORY_COORDINATE_OPERATION>>,
     <<"EPSG", "T1", PJ_OBJ_CATEGORY_COORDINATE_OPERATION>>,
     <<"EPSG", "A", 5>>}

createFromDatabaseOfCategory ==
    /\ ~crashed
    /\ \E args \in CategoryArgs :
        createFromDatabase(args)

NextCategory ==
    \/ createFromDatabaseOfCategory
    \/ proj_obj_clone
    \/ proj_obj_unref

SpecCategory == Init /\ [][NextCategory]_vars

NextType ==
    \/ getTypeFirst
    \/ createCSOfEveryType
    \/ csGetType
    \/ csGetAxisCount
    \/ proj_obj_unref

SpecType == Init /\ [][NextType]_vars

----------------------------------------------------------------------------
(* The C API: the parameters of a SingleOperation *)

\* dynamic_cast<const SingleOperation *>(obj) is not null
isSingleOperation(o) == o.type \in {"Conversion", "Transformation", "PROJBasedOperation"}

\* op->method()->parameters(): the names of the formal parameters of the
\* method, in order; a transformation by grid has the file of the grid, one
\* without grid the three translations
methodParameters(op) ==
    IF op.grids # {} THEN <<"Latitude and longitude difference file">>
    ELSE <<"X-axis translation", "Y-axis translation", "Z-axis translation">>

\* a parameter value: a measure in a unit, or a file name
Measure(value) == [type |-> "MEASURE", value |-> value, file |-> "", factor |-> 1]
Filename(file) == [type |-> "FILENAME", value |-> 0, file |-> file, factor |-> 0]

\* op->parameterValues(): the values, parallel to the formal parameters
parameterValues(op) ==
    IF op.grids # {} THEN <<Filename(CHOOSE g \in op.grids : TRUE)>>
    ELSE <<Measure(Len(op.name)), Measure(0), Measure(Len(op.name) + 1)>>

\* the name without case, spaces, '-' and '_', as Identifier::isEquivalentName
\* compares names
nameKey(name) ==
    CASE name \in {"X-axis translation", "x_axis_translation"} -> "xaxistranslation"
      [] name = "Y-axis translation" -> "yaxistranslation"
      [] name \in {"Z-axis translation", "Z-Axis Translation"} -> "zaxistranslation"
      [] name = "Latitude and longitude difference file"
            -> "latitudeandlongitudedifferencefile"
      [] OTHER -> name

isEquivalentName(a, b) == nameKey(a) = nameKey(b)

\* proj_coordoperation_get_param_count
proj_coordoperation_get_param_count(o) ==
    IF ~isSingleOperation(o) THEN 0 ELSE Len(parameterValues(o))

\* a search that counts the parameters from 1
paramIndexFromOne(parameters, name) ==
    LET found == {i \in DOMAIN parameters : isEquivalentName(parameters[i], name)}
    IN IF found = {} THEN -1 ELSE Min(found)

\* the loop of proj_coordoperation_get_param_index: the position, from 0, of
\* the first formal parameter of an equivalent name, -1 when there is none
paramIndex(parameters, name) ==
    LET found == {i \in DOMAIN parameters : isEquivalentName(parameters[i], name)}
    IN IF found = {} THEN -1 ELSE Min(found) - 1

\* proj_coordoperation_get_param_index
proj_coordoperation_get_param_index(o, name) ==
    IF ~isSingleOperation(o) THEN -1 ELSE paramIndex(methodParameters(o), name)

\* static_cast<size_t>(index) >= size: a negative index is a large unsigned
\* number
paramIndexOutOfRange(index, size) == index < 0 \/ index >= size

\* what the caller's variables hold when the function has not written them
Unwritten == [ret |-> 0, name |-> "unwritten", ints |-> <<>>, string |-> "unwritten"]

\* proj_coordoperation_get_param with every output pointer given: the value
\* returned, *out_name, <<*out_value, *out_unit_conv_factor>> and
\* *out_value_string ("" for a null pointer)
proj_coordoperation_get_param(o, index) ==
    IF ~isSingleOperation(o) THEN Unwritten
    ELSE LET parameters == methodParameters(o)
             values == parameterValues(o)
         IN IF paramIndexOutOfRange(index, Len(parameters))
               \/ paramIndexOutOfRange(index, Len(values))
            THEN Unwritten
            ELSE LET value == values[index + 1]
                 IN [ret |-> 1,
                     name |-> parameters[index + 1],
                     ints |-> IF value.type = "MEASURE"
                              THEN <<value.value, value.factor>> ELSE <<0, 0>>,
                     string |-> IF value.type = "FILENAME" THEN value.file ELSE ""]

\* an operation by grid, one without grid, and a CRS
SingleOperationArgs ==
    {<<"EPSG", "T1", PJ_OBJ_CATEGORY_COORDINATE_OPERATION>>,
     <<"EPSG", "T2", PJ_OBJ_CATEGORY_COORDINATE_OPERATION>>,
     <<"EPSG", "A", PJ_OBJ_CATEGORY_CRS>>}

createOperationFromDatabase ==
    /\ ~crashed
    /\ \E args \in SingleOperationArgs : createFromDatabase(args)

ParamNameArgs ==
    {"X-axis translation", "x_axis_translation", "Z-Axis Translation",
     "Latitude and longitude difference file", "Scale difference"}

ParamIndexArgs == -1 .. 3

\* a call on a handle that allocates nothing: res.n is the handle, res.str
\* and res.opt the strings, res.ints the integers and res.val the value
\* returned
Inspects(fn, coordoperation, str, opt, ints, val) ==
    /\ calls < MaxCalls
    /\ calls' = calls + 1
    /\ res' = [Call(fn, NoObj, NoObj, coordoperation, FALSE, <<>>, ints, val)
                  EXCEPT !.str = str, !.opt = opt]
    /\ UNCHANGED <<dbOpenable, gridsAvail, cpp_context, fctx, asked, nset, crashed,
                   heap, store, objlist, uom, held>>

getParamCount ==
    /\ ~crashed
    /\ \E coordoperation \in liveHandles :
        Inspects("proj_coordoperation_get_param_count", coordoperation, "", "", <<>>,
                 proj_coordoperation_get_param_count(valueOf(Memory, coordoperation)))

\* res.str is the name asked for
getParamIndex ==
    /\ ~crashed
    /\ \E coordoperation \in liveHandles, name \in ParamNameArgs :
        Inspects("proj_coordoperation_get_param_index", coordoperation, name, "", <<>>,
                 proj_coordoperation_get_param_index(valueOf(Memory, coordoperation),
                                                     name))

\* res.ints is the index asked for, followed by the numbers written
getParam ==
    /\ ~crashed
    /\ \E coordoperation \in liveHandles, index \in ParamIndexArgs :
        LET out == proj_coordoperation_get_param(valueOf(Memory, coordoperation), index)
        IN Inspects("proj_coordoperation_get_param", coordoperation, out.name,
                    out.string, <<index>> \o out.ints, out.ret)

NextParam ==
    \/ createOperationFromDatabase
    \/ getParamCount
    \/ getParamIndex
    \/ getParam
    \/ proj_obj_unref

SpecParam == Init /\ [][NextParam]_vars

----------------------------------------------------------------------------
(* The whole API *)

Next ==
    \/ NextOps
    \/ NextObj
    \/ NextAlter
    \/ NextOwn
    \/ NextText
    \/ NextParse
    \/ NextCache
    \/ NextCtx
    \/ NextSub
    \/ NextType
    \/ NextCategory
    \/ NextParam
    \/ proj_coordoperation_is_instanciable

Spec == Init /\ [][Next]_vars

----------------------------------------------------------------------------
(* Properties of the list proj_obj_create_operations returns *)

\* the last call was proj_obj_create_operations and it returned a list
CreatedOperations == res.fn = "proj_obj_create_operations" /\ ~res.null

\* position of a cataloged operation (or of its inverse) in the catalog;
\* derived conversions come after the catalog, concatenations after those,
\* in the order of their steps
catalogIndex(op) ==
    IF \E i \in DOMAIN Catalog : Catalog[i].ids = op.ids
    THEN CHOOSE i \in DOMAIN Catalog : Catalog[i].ids = op.ids
    ELSE Len(Catalog) + 1

catalogOrder(op) ==
    IF op.steps = <<>> THEN catalogIndex(op)
    ELSE (Len(Catalog) + 2) * (1 + catalogIndex(op.steps[1])) + catalogIndex(op.steps[2])

RECURSIVE LexLess(_, _)
LexLess(x, y) ==
    /\ x # <<>>
    /\ \/ Head(x) < Head(y)
       \/ Head(x) = Head(y) /\ LexLess(Tail(x), Tail(y))

unknownAccuracy(op) == proj_coordoperation_get_accuracy(op) < 0

overlapOf(op) == Cardinality(op.area \cap areaOfInterestOf(fctx[1], res.a, res.b))

\* unknown accuracy last, then descending overlap, then ascending accuracy
rankKey(op) ==
    << IF unknownAccuracy(op) THEN 1 ELSE 0,
       0 - overlapOf(op),
       IF unknownAccuracy(op) THEN 0 ELSE proj_coordoperation_get_accuracy(op) >>

sortsMissingGridsLast == asked.gridUse = "PROJ_GRID_AVAILABILITY_USED_FOR_SORTING"

gridKey(op) == IF sortsMissingGridsLast /\ missingGrid(op, gridsAvail) THEN 1 ELSE 0

\* a direct Transformation of accuracy 1 precedes a pivot concatenation of
\* accuracy 5 of equal overlap
DirectBeforePivot(i, j) ==
    LET a == res.objects[i]
        b == res.objects[j]
    IN (/\ a.type = "Transformation" /\ proj_coordoperation_get_accuracy(a) = 1
        /\ b.type = "ConcatenatedOperation" /\ proj_coordoperation_get_accuracy(b) = 5
        /\ overlapOf(a) = overlapOf(b))
       => i < j

\* C1 as stated: the list is sorted by descending overlap, ascending
\* accuracy and catalog order, operations of unknown accuracy last.
C1_SortedByAreaAccuracyCatalog ==
    CreatedOperations =>
        \A i, j \in DOMAIN res.objects :
            /\ i < j => LexLess(rankKey(res.objects[i]) \o <<catalogOrder(res.objects[i])>>,
                                rankKey(res.objects[j]) \o <<catalogOrder(res.objects[j])>>)
            /\ DirectBeforePivot(i, j)

\* C1 amended: the list is sorted by descending overlap, then ascending
\* accuracy, then (under the "use for sorting" grid policy) operations whose
\* grids are all available before those with a missing grid, then catalog
\* order; operations of unknown accuracy come last whatever their area, and
\* a direct Transformation of accuracy 1 precedes a pivot concatenation of
\* accuracy 5 of equal overlap.
C1_SortedByAreaAccuracyGridsCatalog ==
    CreatedOperations =>
        \A i, j \in DOMAIN res.objects :
            /\ i < j =>
                LexLess(rankKey(res.objects[i])
                            \o <<gridKey(res.objects[i]), catalogOrder(res.objects[i])>>,
                        rankKey(res.objects[j])
                            \o <<gridKey(res.objects[j]), catalogOrder(res.objects[j])>>)
            /\ DirectBeforePivot(i, j)

\* a list where two equally ranked operations are ordered by their grids
\* against the catalog order, followed by a Transformation of accuracy 1
\* before a concatenation of accuracy 5, and an operation of unknown accuracy
C1_Witness ==
    /\ CreatedOperations
    /\ \E i, j, k, l \in DOMAIN res.objects :
        /\ i < j /\ j < k /\ k < l
        /\ rankKey(res.objects[i]) = rankKey(res.objects[j])
        /\ catalogOrder(res.objects[i]) > catalogOrder(res.objects[j])
        /\ res.objects[j].type = "Transformation"
        /\ proj_coordoperation_get_accuracy(res.objects[j]) = 1
        /\ res.objects[k].type = "ConcatenatedOperation"
        /\ proj_coordoperation_get_accuracy(res.objects[k]) = 5
        /\ overlapOf(res.objects[j]) = overlapOf(res.objects[k])
        /\ unknownAccuracy(res.objects[l])

\* the filters as the caller asked for them
askedAccuracyOK(op) ==
    ~(/\ asked.accuracy > 0
      /\ proj_coordoperation_get_accuracy(op) >= 0
      /\ proj_coordoperation_get_accuracy(op) > asked.accuracy)

askedGridsOK(op) ==
    ~(/\ asked.gridUse = "PROJ_GRID_AVAILABILITY_DISCARD_OPERATION_IF_MISSING_GRID"
      /\ missingGrid(op, gridsAvail))

areaOK(op) == satisfiesArea(fctx[1], res.a, res.b, op)

\* the candidates the call looked at: the direct ones and, when the pivot
\* step ran, the concatenations through a pivot
Considered ==
    LET direct == directCandidates(fctx[1], res.a, res.b)
        passes(op) == askedAccuracyOK(op) /\ areaOK(op) /\ askedGridsOK(op)
        pivotRan == \/ asked.allow # 0 /\ SelectSeq(direct, passes) = <<>>
                    \/ pivotPairs(asked.pivots) # <<>>
    IN Range(direct) \cup
       (IF pivotRan THEN Range(pivotCandidates(fctx[1], res.a, res.b)) ELSE {})

Returned == Range(res.objects)

\* C2: with a desired accuracy t > 0 no returned operation has a known
\* accuracy greater than t; with t = 0 the accuracy filter removes nothing.
C2_AccuracyThreshold ==
    CreatedOperations =>
        /\ asked.accuracy > 0 =>
            \A op \in Returned :
                \/ proj_coordoperation_get_accuracy(op) < 0
                \/ proj_coordoperation_get_accuracy(op) <= asked.accuracy
        /\ asked.accuracy = 0 =>
            \A op \in Considered : (areaOK(op) /\ askedGridsOK(op)) => op \in Returned

\* a threshold that removed an operation and kept another
C2_Witness ==
    /\ CreatedOperations
    /\ asked.accuracy > 0
    /\ \E op \in Considered :
        /\ proj_coordoperation_get_accuracy(op) > asked.accuracy
        /\ areaOK(op) /\ askedGridsOK(op)
        /\ op \notin Returned
    /\ \E op \in Returned : proj_coordoperation_get_accuracy(op) = asked.accuracy

\* C3: an operation of unknown accuracy that passes the area and grid
\* filters is in the result, for any threshold.
C3_UnknownAccuracyKept ==
    CreatedOperations =>
        \A op \in Considered :
            (/\ proj_coordoperation_get_accuracy(op) < 0
             /\ areaOK(op) /\ askedGridsOK(op))
            => op \in Returned

\* a threshold that removed an operation and kept one of unknown accuracy
C3_Witness ==
    /\ CreatedOperations
    /\ asked.accuracy > 0
    /\ \E op \in Considered : ~askedAccuracyOK(op) /\ op \notin Returned
    /\ \E op \in Returned : proj_coordoperation_get_accuracy(op) < 0

\* C4: with no direct candidate and no pivot search the call returns a list
\* of count 0; it returns NULL exactly when an argument is not a CRS or the
\* engine fails.
C4_EmptyListIsNotAnError ==
    res.fn = "proj_obj_create_operations" =>
        /\ res.null <=> (~isCRS(res.a) \/ ~isCRS(res.b) \/ res.n = 1)
        /\ (/\ isCRS(res.a) /\ isCRS(res.b) /\ res.n = 0
            /\ directCandidates(fctx[1], res.a, res.b) = <<>>
            /\ asked.allow = 0 /\ pivotPairs(asked.pivots) = <<>>)
           => (~res.null /\ proj_obj_list_get_count(res) = 0)

\* two CRS of the catalog joined only through a pivot, asked without pivot
C4_Witness ==
    /\ CreatedOperations
    /\ fctx[1].authFactory
    /\ asked.allow = 0 /\ pivotPairs(asked.pivots) = <<>>
    /\ res.a = crsA /\ res.b = crsQ
    /\ proj_obj_list_get_count(res) = 0

\* C5: every concatenation returned has two single steps, source to pivot
\* and pivot to target, joined at the same CRS; with pivoting disabled and
\* no allow-list no concatenation is returned.
C5_OnePivot ==
    CreatedOperations =>
        /\ \A op \in Returned :
            op.type = "ConcatenatedOperation" =>
                /\ Len(op.steps) = 2
                /\ \A k \in 1..2 : op.steps[k].type = "Transformation"
                /\ op.steps[1].src = CrsId(res.a)
                /\ op.steps[1].tgt = op.steps[2].src
                /\ op.steps[2].tgt = CrsId(res.b)
                /\ op.steps[1].tgt \notin {CrsId(res.a), CrsId(res.b)}
        /\ (asked.allow = 0 /\ pivotPairs(asked.pivots) = <<>>) =>
            \A op \in Returned : op.type # "ConcatenatedOperation"

\* a concatenation through a pivot was returned
C5_Witness ==
    /\ CreatedOperations
    /\ asked.allow # 0
    /\ \E op \in Returned : op.type = "ConcatenatedOperation"

sameRank(a, b) == rankKey(a) = rankKey(b)

\* C6: under "discard operation if missing grid" no returned operation
\* needs an unavailable grid; under "use for sorting" such operations are
\* kept and come after the equally ranked operations whose grids are all
\* available.
C6_GridAvailability ==
    CreatedOperations =>
        /\ asked.gridUse = "PROJ_GRID_AVAILABILITY_DISCARD_OPERATION_IF_MISSING_GRID" =>
            \A op \in Returned : ~missingGrid(op, gridsAvail)
        /\ asked.gridUse = "PROJ_GRID_AVAILABILITY_USED_FOR_SORTING" =>
            /\ \A op \in Considered : (askedAccuracyOK(op) /\ areaOK(op)) => op \in Returned
            /\ \A i, j \in DOMAIN res.objects :
                (/\ i < j
                 /\ sameRank(res.objects[i], res.objects[j])
                 /\ missingGrid(res.objects[i], gridsAvail))
                => missingGrid(res.objects[j], gridsAvail)

\* the discard policy removed an operation with a missing grid
C6_Witness ==
    /\ CreatedOperations
    /\ asked.gridUse = "PROJ_GRID_AVAILABILITY_DISCARD_OPERATION_IF_MISSING_GRID"
    /\ \E op \in Considered :
        missingGrid(op, gridsAvail) /\ askedAccuracyOK(op) /\ areaOK(op) /\ op \notin Returned
    /\ Returned # {}

----------------------------------------------------------------------------
(* Properties of proj_coordoperation_is_instanciable *)

Instanciated == res.fn = "proj_coordoperation_is_instanciable"

\* what the function is to return for the object and the grids at hand
instanciableExpected ==
    IF /\ isCoordinateOperation(res.a)
       /\ res.n = 0
       /\ \A g \in gridsNeeded(res.a) : g \in gridsAvail
    THEN 1 ELSE 0

\* C7: proj_coordoperation_is_instanciable returns 1 iff every grid the
\* operation needs, through all the steps of a concatenated operation, is
\* available, and 0 for an object that is not a CoordinateOperation and when
\* the check raises a failure; with whatever ctx the documentation allows.
C7_InstanciableIffGridsAvailable ==
    Instanciated => (~crashed /\ res.val = instanciableExpected)

\* the same with a context that is not NULL
C7_InstanciableWithContext ==
    (Instanciated /\ res.str # "NULL") => (~crashed /\ res.val = instanciableExpected)

\* a NULL ctx has been passed and the process has stopped
C7_NullContextStops == Instanciated /\ res.str = "NULL" /\ crashed

----------------------------------------------------------------------------
(* Properties of proj_obj_identify *)

Identified == res.fn = "proj_obj_identify" /\ ~res.null

identifiedPool == candidatePool(res.a, IF res.str = "NULL" THEN "" ELSE res.str)

equivalentToIdentified(c) == isEquivalentToResult(c, res.a, PJ_COMP_EQUIVALENT) = 1

exactMatch(c) == c.name = res.a.name /\ equivalentToIdentified(c)

hasExactMatch == \E i \in DOMAIN identifiedPool : exactMatch(identifiedPool[i])

\* a pool with an exact match gives that single result, with confidence 100
exactMatchAlone ==
    hasExactMatch =>
        /\ Len(res.objects) = 1
        /\ exactMatch(res.objects[1])
        /\ res.n = 1 => res.ints = <<100>>

\* without an exact match every equivalent CRS of the pool is returned
equivalentReturned ==
    ~hasExactMatch =>
        \A i \in DOMAIN identifiedPool :
            equivalentToIdentified(identifiedPool[i])
                => identifiedPool[i] \in Range(res.objects)

\* a CRS of another structure and an unrelated name is not returned
unrelatedExcluded ==
    /\ \A i \in DOMAIN identifiedPool :
           (/\ ~equivalentToIdentified(identifiedPool[i])
            /\ ~namesSimilar(identifiedPool[i].name, res.a.name))
               => identifiedPool[i] \notin Range(res.objects)
    /\ \A i \in DOMAIN res.ints : res.ints[i] > 0

confidencesGiven == res.n = 1 => Len(res.ints) = Len(res.objects)

\* C8 as stated: an exact match alone with 100; an equivalent CRS of any
\* other name has confidence 90; an unrelated CRS of another structure is
\* not returned.
C8_IdentifyConfidences ==
    Identified =>
        /\ confidencesGiven
        /\ exactMatchAlone
        /\ equivalentReturned
        /\ \A i \in DOMAIN res.ints :
               (/\ equivalentToIdentified(res.objects[i])
                /\ res.objects[i].name # res.a.name)
                   => res.ints[i] = 90
        /\ unrelatedExcluded

\* C8: identifying a CRS against a pool that holds a CRS of the same name and
\* structure gives that single result with confidence 100; an equivalent CRS
\* whose name differs but is similar has confidence 90, and one whose name
\* does not match at all has confidence 70; a CRS of another structure and
\* an unrelated name is not returned.
C8_IdentifyConfidencesByName ==
    Identified =>
        /\ confidencesGiven
        /\ exactMatchAlone
        /\ equivalentReturned
        /\ \A i \in DOMAIN res.ints :
               (/\ equivalentToIdentified(res.objects[i])
                /\ res.objects[i].name # res.a.name)
                   => res.ints[i] =
                          IF namesSimilar(res.objects[i].name, res.a.name)
                          THEN 90 ELSE 70
        /\ unrelatedExcluded

\* a CRS has been identified against equivalent CRS of a similar and of an
\* unrelated name
C8_Witness ==
    /\ Identified
    /\ res.a = crsNad
    /\ res.objects = <<crsA, crsAlias, crsTwin, crsNamesake>>
    /\ res.ints = <<90, 90, 70, 25>>

\* C9: for every (reference CRS, confidence) pair identify returns, a
\* confidence of 70, 90 or 100 implies that the reference CRS is equivalent
\* (criterion Equivalent) to the CRS identified, and a reference CRS that is
\* not equivalent has a lower confidence.
C9_ConfidenceImpliesEquivalent ==
    (Identified /\ res.n = 1) =>
        /\ Len(res.ints) = Len(res.objects)
        /\ \A i \in DOMAIN res.ints :
               /\ res.ints[i] \in {70, 90, 100} => equivalentToIdentified(res.objects[i])
               /\ ~equivalentToIdentified(res.objects[i]) => res.ints[i] < 70

\* a list holding an equivalent and a non-equivalent reference CRS
C9_Witness ==
    /\ Identified
    /\ res.n = 1
    /\ \E i \in DOMAIN res.ints : \E j \in DOMAIN res.ints :
           /\ res.ints[i] >= 70 /\ equivalentToIdentified(res.objects[i])
           /\ res.ints[j] = 25 /\ ~equivalentToIdentified(res.objects[j])

----------------------------------------------------------------------------
(* Properties of proj_obj_is_equivalent_to *)

Compared == res.fn = "proj_obj_is_equivalent_to"

\* the axes of a GeographicCRS, latitude first
latitudeFirst(axes) == IF axes = LonLat THEN LatLon ELSE axes

\* What a criterion of the C enumeration compares of an object: all of it
\* for PJ_COMP_STRICT; without names, identifiers and areas of use for the
\* two others; without the order of the axes of a GeographicCRS for the last.
RECURSIVE compared(_, _)
compared(o, criterion) ==
    [type |-> o.type,
     name |-> IF criterion = PJ_COMP_STRICT THEN o.name ELSE "",
     ids |-> IF criterion = PJ_COMP_STRICT THEN o.ids ELSE <<>>,
     area |-> IF criterion = PJ_COMP_STRICT THEN o.area ELSE {},
     num |-> o.num,
     axes |-> IF /\ criterion = PJ_COMP_EQUIVALENT_EXCEPT_AXIS_ORDER_GEOGCRS
                 /\ o.type = "GeographicCRS"
              THEN latitudeFirst(o.axes) ELSE o.axes,
     comp |-> [i \in DOMAIN o.comp |-> compared(o.comp[i], criterion)],
     src |-> o.src, tgt |-> o.tgt, acc |-> o.acc, grids |-> o.grids,
     steps |-> [i \in DOMAIN o.steps |-> compared(o.steps[i], criterion)]]

\* C10: for each of the three criteria proj_obj_is_equivalent_to is
\* reflexive, symmetric and transitive over the objects, and the criterion
\* the engine applies is the one the C enumeration value names.
C10_EquivalenceRelation ==
    Compared =>
        LET equivalent(x, y) == isEquivalentToResult(x, y, res.n) = 1
        IN /\ res.val \in {0, 1}
           /\ res.a = res.b => res.val = 1
           /\ res.val = isEquivalentToResult(res.b, res.a, res.n)
           /\ \A c \in EquivalenceArgs :
                  (res.val = 1 /\ equivalent(res.b, c)) => equivalent(res.a, c)
           /\ (res.val = 1) <=> (compared(res.a, res.n) = compared(res.b, res.n))

\* two ProjectedCRS whose base GeographicCRS differ by the order of their
\* axes are found equivalent under the axis-order exception
C10_Witness ==
    /\ Compared
    /\ res.n = PJ_COMP_EQUIVALENT_EXCEPT_AXIS_ORDER_GEOGCRS
    /\ res.a = utmA
    /\ res.b = utmASwap
    /\ res.val = 1

----------------------------------------------------------------------------
(* Properties of the alteration functions *)

AlterFns ==
    {"proj_obj_alter_name", "proj_obj_crs_alter_geodetic_crs",
     "proj_obj_crs_alter_cs_angular_unit", "proj_obj_crs_alter_cs_linear_unit",
     "proj_obj_crs_alter_parameters_linear_unit"}

\* the instances a handle reaches: its own and those of its components
RECURSIVE reach(_, _)
reach(st, a) ==
    IF a = 0 THEN {} ELSE {a} \cup reach(st, st[a].part) \cup reach(st, st[a].part2)

\* C12: an alteration function leaves every object there was as it was,
\* the input among them: each handle still refers to the same instances,
\* of the same name, type and value, Strict-equivalent to what they were.
\* When it succeeds it returns one handle that was not in use, on an
\* instance that was not in use; when it fails it changes nothing and
\* leaves no handle behind.
C12_AlterationReturnsNewLeavesInput ==
    [][(calls' # calls /\ res'.fn \in AlterFns) =>
        /\ \A h \in liveHandles :
            /\ heap'[h] = heap[h]
            /\ \A a \in reach(store, heap[h].obj) :
                /\ store'[a].state = "live"
                /\ store'[a].val = store[a].val
                /\ store'[a].part = store[a].part
                /\ store'[a].val.name = store[a].val.name
                /\ store'[a].val.type = store[a].val.type
                /\ isEquivalentToResult(store'[a].val, store[a].val, PJ_COMP_STRICT) = 1
        /\ IF res'.val # 0
           THEN /\ res'.val \notin liveHandles
                /\ {h \in Handles : heap'[h].state = "live"} = liveHandles \cup {res'.val}
                /\ store[heap'[res'.val].obj].state = "free"
                /\ store'[heap'[res'.val].obj].state = "live"
           ELSE heap' = heap /\ store' = store]_vars

\* the unit of the axes of the base CRS of a ProjectedCRS has been changed:
\* the function has made and released its two temporary handles
C12_Witness ==
    /\ res.fn = "proj_obj_crs_alter_cs_angular_unit"
    /\ res.val # 0
    /\ res.str = "grad"
    /\ valueOf(Memory, res.n).type = "ProjectedCRS"
    /\ valueOf(Memory, res.val).comp[1].axes # valueOf(Memory, res.n).comp[1].axes
    /\ Cardinality(liveHandles) = 2


----------------------------------------------------------------------------
(* Properties of handles, lists and the instances they own *)

\* the shared pointers to an instance: of handles, of the list, of the
\* instances it is a component of
sharesOf(a) ==
    Cardinality({h \in liveHandles : heap[h].obj = a})
    + (IF objlist = <<>> THEN 0
       ELSE Cardinality({i \in DOMAIN objlist[1] : objlist[1][i] = a}))
    + Cardinality({b \in Instances : store[b].state = "live" /\ store[b].part = a})
    + Cardinality({b \in Instances : store[b].state = "live" /\ store[b].part2 = a})

\* every handle not unreferenced refers to a live object whose components
\* are live, and an instance lives exactly as long as it has an owner
Owned ==
    /\ \A h \in liveHandles :
        \A a \in reach(store, heap[h].obj) :
            /\ store[a].state = "live"
            /\ (store[a].part # 0 /\ store[a].part2 = 0)
                => store[a].val.comp = <<store[store[a].part].val>>
            /\ store[a].part2 # 0
                => store[a].val.comp = <<store[store[a].part].val, store[store[a].part2].val>>
    /\ \A a \in Instances :
        /\ store[a].rc = sharesOf(a)
        /\ store[a].state = "live" <=> sharesOf(a) > 0

\* a call changes no handle but the one it releases or returns, and no
\* object a handle refers to
Releases ==
    /\ \A h \in liveHandles :
        (res'.fn = "proj_obj_unref" /\ h = res'.n) \/
            (heap'[h] = heap[h] /\ valueOf(Memory, h) = store'[heap[h].obj].val)
    /\ res'.fn = "proj_obj_unref" =>
        (res'.n \in liveHandles /\ heap'[res'.n].state = "free")
    /\ \A h \in Handles \ liveHandles :
        heap'[h].state = "live" =>
            (h = res'.val /\ res'.fn \in {"proj_obj_clone", "proj_obj_list_get",
                                          "proj_obj_crs_get_geodetic_crs",
                                          "proj_obj_crs_get_datum"})

\* C18: handles are independent owners of a shared object. After any
\* sequence of proj_obj_create_from_name, proj_obj_clone, proj_obj_list_get,
\* the component getters, proj_obj_unref and proj_obj_list_unref, every
\* handle that has not been unreferenced refers to a live object with live
\* components; proj_obj_unref releases the handle it is given and no other,
\* proj_obj_list_unref releases no handle.
C18_HandlesOwnIndependently == [](Owned) /\ [][calls' # calls => Releases]_vars

\* the list has been unreferenced, and an element handle got from it, or a
\* handle got from that one, is still there, the only owner of its object
C18_Witness ==
    /\ res.fn = "proj_obj_list_unref"
    /\ objlist = <<>>
    /\ \E h \in liveHandles : store[heap[h].obj].rc = 1 /\ store[heap[h].obj].part # 0

\* an object is of a type of the C enumeration
ofType(o, type) ==
    CASE type = "PJ_OBJ_TYPE_CRS" -> isCRS(o)
      [] type \in {"PJ_OBJ_TYPE_GEODETIC_CRS", "PJ_OBJ_TYPE_GEOGRAPHIC_CRS"} ->
            o.type = "GeographicCRS"
      [] OTHER -> proj_obj_get_type(o) = type

\* the objects proj_obj_create_from_name has returned
FoundByName == res.fn = "proj_obj_create_from_name" /\ ~res.null

\* C19: proj_obj_create_from_name restricts the search to the requested
\* types: when the types array is not empty, every object of the list
\* returned is of one of the types of the array.
C19_SearchRestrictedToTypes ==
    (FoundByName /\ TypesArgs[res.n] # <<>>) =>
        \A i \in DOMAIN res.objects :
            \E j \in DOMAIN TypesArgs[res.n] : ofType(res.objects[i], TypesArgs[res.n][j])

\* the same for the arrays all of whose types the search knows
C19_SearchRestrictedToKnownTypes ==
    (FoundByName /\ TypesArgs[res.n] # <<>>
        /\ Len(allowedTypesOf(TypesArgs[res.n])) = Len(TypesArgs[res.n])) =>
        \A i \in DOMAIN res.objects :
            \E j \in DOMAIN TypesArgs[res.n] : ofType(res.objects[i], TypesArgs[res.n][j])


----------------------------------------------------------------------------
(* Properties of text *)

\* the object parsed from a text is Equivalent to an object, whether or not
\* a catalog is attached to the parser
parsesBackTo(text, e, assumed) ==
    \A attached \in BOOLEAN :
        LET back == parse(text, WKT2Types \cup WKT1Types \cup PROJStringTypes,
                          attached, assumed)
        IN back # NoObj /\ isEquivalentTo(back, e, "EQUIVALENT")

\* a convention that does not support the variant of the object gives NULL
unsupportedGivesNull ==
    /\ (res.fn = "proj_obj_as_wkt" /\ ~supportsWKT(valueOf(Memory, res.n), res.str))
        => res.null
    /\ (res.fn = "proj_obj_as_proj_string"
            /\ ~isPROJStringExportable(valueOf(Memory, res.n))) => res.null

RECURSIVE axesAsked(_, _, _)
axesAsked(e, type, options) ==
    /\ e.axes # <<>> =>
        (options = "OUTPUT_AXIS=YES" \/ (options = "NULL" /\ type \in WKT2Types))
    /\ \A i \in DOMAIN e.comp : axesAsked(e.comp[i], type, options)

ParseFns ==
    [proj_obj_create_from_wkt |-> WKT2Types \cup WKT1Types,
     proj_obj_create_from_proj_string |-> PROJStringTypes,
     proj_obj_create_from_user_input |-> WKT2Types \cup WKT1Types \cup PROJStringTypes]

\* the last call was given a well-formed text in a convention it reads
parsedWellFormed ==
    /\ res.fn \in DOMAIN ParseFns
    /\ res.a.type # ""
    /\ res.str \in ParseFns[res.fn]
    /\ res.opt = "NULL"

\* C20: parsing does not require a catalog. When the database cannot be
\* opened, the functions that create an object from text return, for a
\* well-formed text, an object with the names the text has; the functions
\* that need the catalog, and proj_obj_create_from_user_input for an object
\* code, return NULL; and every call returns.
C20_ParsingNeedsNoCatalog ==
    ~dbOpenable =>
        /\ ~crashed
        /\ cpp_context = "null"
        /\ parsedWellFormed =>
            /\ ~res.null
            /\ res.val \in liveHandles
            /\ valueOf(Memory, res.val).type = res.a.type
            /\ valueOf(Memory, res.val).name = res.a.name
        /\ res.fn \in {"proj_obj_create_from_database", "proj_obj_identify",
                       "proj_obj_create_from_name"} => res.null
        /\ (res.fn = "proj_obj_create_from_user_input" /\ res.str = "CODE") => res.null

\* without a database a text in the legacy vendor dialect has been parsed,
\* and the CRS has the name of the text, not that of the catalog
C20_Witness ==
    /\ ~dbOpenable
    /\ res.fn = "proj_obj_create_from_wkt"
    /\ res.str = "PJ_WKT1_ESRI"
    /\ res.val \in liveHandles
    /\ valueOf(Memory, res.val).name = esriName("NAD27")


----------------------------------------------------------------------------
(* Properties of what a PJ_OBJ caches *)

\* gridsNeeded has been called at most once for each object, exactly when
\* the object is marked as asked, and the list is empty or what it gave
AskedOnce ==
    \A h \in liveHandles :
        /\ heap[h].queries <= 1
        /\ heap[h].gridsNeededAsked <=> heap[h].queries = 1
        /\ heap[h].gridsNeeded \in {<<>>, gridList(gridsNeeded(valueOf(Memory, h)))}

\* once an object has been asked, no call but proj_obj_unref of it changes
\* its list or calls gridsNeeded, and a call for the count returns the
\* length of the list
AskedForGood ==
    /\ \A h \in liveHandles :
        (heap[h].gridsNeededAsked /\ ~(res'.fn = "proj_obj_unref" /\ res'.n = h)) =>
            /\ heap'[h].gridsNeededAsked
            /\ heap'[h].gridsNeeded = heap[h].gridsNeeded
            /\ heap'[h].queries = heap[h].queries
    /\ (res'.fn = "proj_coordoperation_get_grid_used_count"
            /\ heap[res'.n].gridsNeededAsked) =>
        res'.val = Len(heap[res'.n].gridsNeeded)

\* C14: the grids an operation needs are computed at most once for a
\* PJ_OBJ: gridsNeeded is called at most once, also when the call fails,
\* the list is not appended to again, and every later call returns the
\* same count.
C14_GridsNeededAskedOnce == [](AskedOnce) /\ [][calls' # calls => AskedForGood]_vars

\* the count has been asked again of an operation that needs a grid and
\* whose first query failed: it is 0 again, and gridsNeeded was called once
C14_Witness ==
    /\ res.fn = "proj_coordoperation_get_grid_used_count"
    /\ res.opt = "cached"
    /\ res.val = 0
    /\ gridsNeeded(valueOf(Memory, res.n)) # {}
    /\ heap[res.n].queries = 1

\* C15: the string proj_obj_as_wkt has returned for an object is valid
\* while the object is, until the next call of proj_obj_as_wkt for that
\* object: no call changes obj->lastWKT of an object but a proj_obj_as_wkt
\* for it that returns a string and the proj_obj_unref of it, and likewise
\* obj->lastPROJString and proj_obj_as_proj_string.
C15_StringsValidUntilNextCall ==
    [][\A h \in liveHandles :
        /\ heap'[h].lastWKT # heap[h].lastWKT =>
            \/ res'.fn = "proj_obj_as_wkt" /\ res'.n = h /\ ~res'.null
            \/ res'.fn = "proj_obj_unref" /\ res'.n = h
        /\ heap'[h].lastPROJString # heap[h].lastPROJString =>
            \/ res'.fn = "proj_obj_as_proj_string" /\ res'.n = h /\ ~res'.null
            \/ res'.fn = "proj_obj_unref" /\ res'.n = h]_vars

\* an object has given both a WKT and a PROJ string, and a call of
\* proj_obj_as_wkt for it has failed since
C15_Witness ==
    /\ res.fn = "proj_obj_as_wkt"
    /\ res.null
    /\ heap[res.n].lastWKT # <<>>
    /\ heap[res.n].lastPROJString # <<>>


----------------------------------------------------------------------------
(* Claims about the context *)

\* C16 as stated: the unit name given in *out_name stays valid, and says
\* what it said, over every call on the context other than the next
\* proj_uom_get_info_from_database, proj_context_set_database_path included
C16_UomNameValidUntilNextUomCall ==
    [][(held.valid /\ res'.fn # "proj_uom_get_info_from_database")
        => (held'.valid /\ held'.text = held.text /\ uom' = held.text)]_vars

\* the unit name stays valid over every call other than the next
\* proj_uom_get_info_from_database and proj_context_set_database_path
UomNameValidWhileDatabaseKept ==
    [][(held.valid /\ res'.fn \notin {"proj_uom_get_info_from_database",
                                      "proj_context_set_database_path"})
        => (held'.valid /\ held'.text = held.text /\ uom' = held.text)]_vars

\* a unit name has been given and another call has been made since
UomNameHeld == held.valid /\ res.fn # "proj_uom_get_info_from_database"

\* C17 as stated: no function that takes 'ctx PROJ context, or NULL for
\* default context' uses a NULL ctx before it has replaced it by the
\* default context, and so no call stops the process
C17_NullContextSanitized == ~crashed /\ res.opt # "NULL dereferenced"

\* the functions that begin with SANITIZE_CTX never use a NULL ctx
SanitizingFunctionsSafe ==
    res.fn \in {"proj_uom_get_info_from_database", "proj_context_set_database_path"}
        => res.opt = "sanitized"

----------------------------------------------------------------------------
(* Claims about the allow-list of pivots *)

\* the pairs (auth_name_i, code_i) of a list, in the order of the list
pairsOf(list) == [i \in 1..(Len(list) \div 2) |-> <<list[2 * i - 1], list[2 * i]>>]

\* C30: proj_operation_factory_context_set_allowed_intermediate_crs stores
\* exactly the N pairs of its list, in order, in place of the allow-list
\* set before (none for a NULL list, a last name without code ignored),
\* and changes no other option of the factory context
C30_AllowedIntermediateCRSPairs ==
    [][res'.fn = "proj_operation_factory_context_set_allowed_intermediate_crs"
        => /\ fctx # <<>>
           /\ fctx' = <<[fctx[1] EXCEPT !.intermediateCRS = pairsOf(asked'.pivots)]>>]_vars

\* a list of two pairs has been set in place of another allow-list
C30_Witness ==
    /\ res.fn = "proj_operation_factory_context_set_allowed_intermediate_crs"
    /\ nset = 2
    /\ asked.pivots = <<"EPSG", "Q", "EPSG", "P">>
    /\ fctx[1].intermediateCRS = <<<<"EPSG", "Q">>, <<"EPSG", "P">>>>

----------------------------------------------------------------------------
(* Claims about the confidences of proj_obj_identify *)

\* the last call was proj_obj_identify with a non-NULL out_confidence
IdentifiedWithConfidence == res.fn = "proj_obj_identify" /\ res.n = 1

\* C21: when proj_obj_identify succeeds, *out_confidence is an array of
\* as many elements as the list returned, element i the confidence
\* (0 to 100) of the i-th CRS of the list; when it fails, and so for an
\* object that is not a CRS, it returns NULL, *out_confidence is NULL and
\* no array is left allocated
C21_ConfidenceArrayMatchesList ==
    IdentifiedWithConfidence =>
        LET pairs == identify(res.a, IF res.str = "NULL" THEN "" ELSE res.str)
        IN /\ ~isCRS(res.a) => res.null
           /\ ~res.null =>
                /\ res.opt = "array"
                /\ Len(res.ints) = proj_obj_list_get_count(res)
                /\ Len(pairs) = Len(res.ints)
                /\ \A i \in 1..Len(res.ints) :
                    /\ res.ints[i] \in 0..100
                    /\ pairs[i] = <<res.objects[i], res.ints[i]>>
           /\ res.null => res.opt = "NULL" /\ res.ints = <<>> /\ res.val = 0

\* a list of several CRS has been returned with confidences below 100
C21_Witness ==
    /\ IdentifiedWithConfidence
    /\ ~res.null
    /\ Len(res.ints) >= 2
    /\ res.ints[1] < 100

----------------------------------------------------------------------------
(* Claims about the options of proj_obj_as_proj_string *)

\* the last call was proj_obj_as_proj_string, on a ProjectedCRS, and it
\* returned a string
ExportedProjected ==
    /\ res.fn = "proj_obj_as_proj_string"
    /\ ~res.null
    /\ heap[res.n].state = "live"
    /\ valueOf(Memory, res.n).type = "ProjectedCRS"

\* the options list of the last call has entry at some position
hasOption(entry) ==
    \E i \in DOMAIN EtmercOptionArgs[res.val] : EtmercOptionArgs[res.val][i] = entry

\* C22 as stated: a USE_ETMERC=YES entry at any position of the options
\* list makes the string use etmerc, a USE_ETMERC=NO entry at any
\* position makes it use tmerc
C22_UseEtmercAtAnyPosition ==
    ExportedProjected =>
        /\ hasOption("USE_ETMERC=YES") => heap[res.n].lastPROJString[1].proj = "etmerc"
        /\ hasOption("USE_ETMERC=NO") => heap[res.n].lastPROJString[1].proj = "tmerc"

\* the USE_ETMERC entry is honoured when it is the first of the list
UseEtmercFirstEntry ==
    ExportedProjected /\ EtmercOptionArgs[res.val] # <<>> =>
        /\ EtmercOptionArgs[res.val][1] = "USE_ETMERC=YES"
            => heap[res.n].lastPROJString[1].proj = "etmerc"
        /\ EtmercOptionArgs[res.val][1] = "USE_ETMERC=NO"
            => heap[res.n].lastPROJString[1].proj = "tmerc"

----------------------------------------------------------------------------
(* Claims about the components of a CRS *)

\* C23: proj_obj_crs_get_sub_crs returns NULL exactly when the object is
\* not a CompoundCRS or the index is negative or not less than the number
\* of components, and otherwise a handle on the component at that index;
\* proj_obj_list_get returns NULL exactly when the index is negative or not
\* less than the count of the list, and otherwise a handle on the object
\* at that index
C23_IndexOutOfRangeGivesNull ==
    /\ res.fn = "proj_obj_crs_get_sub_crs" =>
        LET a == heap[res.n].obj
            v == store[a].val
            index == res.ints[1]
        IN /\ res.null <=> (v.type # "CompoundCRS" \/ index < 0 \/ index >= Len(v.comp))
           /\ ~res.null =>
                /\ heap[res.val].state = "live"
                /\ heap[res.val].obj = IF index = 0 THEN store[a].part ELSE store[a].part2
                /\ valueOf(Memory, res.val) = v.comp[index + 1]
    /\ res.fn = "proj_obj_list_get" =>
        /\ res.null <=> (res.n < 0 \/ res.n >= Len(objlist[1]))
        /\ ~res.null =>
            /\ heap[res.val].state = "live"
            /\ heap[res.val].obj = objlist[1][res.n + 1]

\* the second component of a CompoundCRS has been returned
C23_Witness ==
    /\ res.fn = "proj_obj_crs_get_sub_crs"
    /\ ~res.null
    /\ res.ints = <<1>>
    /\ valueOf(Memory, res.val).type = "VerticalCRS"

\* C24: for every CRS a geodetic CRS can be extracted from,
\* proj_obj_crs_get_horizontal_datum returns an object, the datum when the
\* geodetic CRS has one and its datum ensemble otherwise, and never
\* reports that the CRS has no datum
C24_HorizontalDatumOrEnsemble ==
    res.fn = "proj_obj_crs_get_horizontal_datum" =>
        LET geodCRS == extractGeodeticCRS(Memory, res.n)
        IN /\ res.str # "CRS has no datum"
           /\ geodCRS # 0 =>
                /\ ~res.null
                /\ heap[res.val].state = "live"
                /\ valueOf(Memory, res.val) = store[geodCRS].val.comp[1]
                /\ valueOf(Memory, res.val).type
                       \in {"GeodeticReferenceFrame", "DatumEnsemble"}

\* the datum ensemble of a CRS that has no datum has been returned
C24_Witness ==
    /\ res.fn = "proj_obj_crs_get_horizontal_datum"
    /\ ~res.null
    /\ valueOf(Memory, res.val).type = "DatumEnsemble"

----------------------------------------------------------------------------
(* Claims about the type of an object *)

\* the tag of each class that has one of its own
OwnTag ==
    [class \in {"ProjectedCRS", "CompoundCRS", "TemporalCRS", "EngineeringCRS",
                "BoundCRS", "Conversion", "Transformation", "ConcatenatedOperation"} |->
        CASE class = "ProjectedCRS" -> "PJ_OBJ_TYPE_PROJECTED_CRS"
          [] class = "CompoundCRS" -> "PJ_OBJ_TYPE_COMPOUND_CRS"
          [] class = "TemporalCRS" -> "PJ_OBJ_TYPE_TEMPORAL_CRS"
          [] class = "EngineeringCRS" -> "PJ_OBJ_TYPE_ENGINEERING_CRS"
          [] class = "BoundCRS" -> "PJ_OBJ_TYPE_BOUND_CRS"
          [] class = "Conversion" -> "PJ_OBJ_TYPE_CONVERSION"
          [] class = "Transformation" -> "PJ_OBJ_TYPE_TRANSFORMATION"
          [] class = "ConcatenatedOperation" -> "PJ_OBJ_TYPE_CONCATENATED_OPERATION"]

\* C25: proj_obj_get_type returns the most specific type: a dynamic
\* reference frame is DYNAMIC_*, a GeographicCRS is GEOGRAPHIC_2D_CRS iff it
\* has exactly 2 axes and GEOGRAPHIC_3D_CRS otherwise, another GeodeticCRS
\* is GEOCENTRIC_CRS iff it is geocentric, and every Projected, Compound,
\* Temporal, Engineering and Bound CRS and every Conversion, Transformation
\* and ConcatenatedOperation has its own tag
C25_MostSpecificType ==
    res.fn = "proj_obj_get_type" =>
        LET o == res.a
            t == res.str
        IN /\ o.type = "DynamicGeodeticReferenceFrame"
                => t = "PJ_OBJ_TYPE_DYNAMIC_GEODETIC_REFERENCE_FRAME"
           /\ o.type = "DynamicVerticalReferenceFrame"
                => t = "PJ_OBJ_TYPE_DYNAMIC_VERTICAL_REFERENCE_FRAME"
           /\ o.type = "GeographicCRS" =>
                /\ t \in {"PJ_OBJ_TYPE_GEOGRAPHIC_2D_CRS", "PJ_OBJ_TYPE_GEOGRAPHIC_3D_CRS"}
                /\ t = "PJ_OBJ_TYPE_GEOGRAPHIC_2D_CRS" <=> Len(o.axes) = 2
           /\ o.type = "GeodeticCRS" =>
                (t = "PJ_OBJ_TYPE_GEOCENTRIC_CRS" <=> o.axes = <<"X", "Y", "Z">>)
           /\ o.type \in DOMAIN OwnTag => t = OwnTag[o.type]
           /\ t \in {"PJ_OBJ_TYPE_OTHER_CRS", "PJ_OBJ_TYPE_OTHER_COORDINATE_OPERATION",
                      "PJ_OBJ_TYPE_UNKNOWN"}
                => o.type \notin DOMAIN OwnTag

\* the type of a dynamic geodetic reference frame has been asked for
C25_Witness ==
    /\ res.fn = "proj_obj_get_type"
    /\ res.a.type = "DynamicGeodeticReferenceFrame"
    /\ res.str = "PJ_OBJ_TYPE_DYNAMIC_GEODETIC_REFERENCE_FRAME"

\* the axis counts of each type of coordinate system
axisCountAllowed(type, n) ==
    CASE type \in {"PJ_CS_TYPE_CARTESIAN", "PJ_CS_TYPE_ELLIPSOIDAL"} -> n \in {2, 3}
      [] type = "PJ_CS_TYPE_SPHERICAL" -> n = 3
      [] type \in {"PJ_CS_TYPE_VERTICAL", "PJ_CS_TYPE_PARAMETRIC",
                   "PJ_CS_TYPE_DATETIMETEMPORAL", "PJ_CS_TYPE_TEMPORALCOUNT",
                   "PJ_CS_TYPE_TEMPORALMEASURE"} -> n = 1
      [] OTHER -> TRUE

\* the last call was proj_obj_create_cs with a type other than UNKNOWN
CreatedCS == res.fn = "proj_obj_create_cs" /\ CSTypeList[res.ints[1]] # "PJ_CS_TYPE_UNKNOWN"

\* C26 as stated: proj_obj_create_cs returns NULL for an axis count not
\* allowed for the type, and the coordinate system it returns for a type T
\* and n axes has type T and n axes for proj_obj_cs_get_type and
\* proj_obj_cs_get_axis_count
C26_CreatedCSHasTypeAndAxisCount ==
    CreatedCS =>
        LET T == CSTypeList[res.ints[1]]
            n == res.ints[2]
        IN /\ ~axisCountAllowed(T, n) => res.null
           /\ ~res.null =>
                /\ proj_obj_cs_get_type(valueOf(Memory, res.val)) = T
                /\ proj_obj_cs_get_axis_count(valueOf(Memory, res.val)) = n

\* the same for every type but SPHERICAL
CreatedCSHasTypeUnlessSpherical ==
    (CreatedCS /\ CSTypeList[res.ints[1]] # "PJ_CS_TYPE_SPHERICAL") =>
        LET T == CSTypeList[res.ints[1]]
            n == res.ints[2]
        IN /\ ~axisCountAllowed(T, n) => res.null
           /\ ~res.null =>
                /\ proj_obj_cs_get_type(valueOf(Memory, res.val)) = T
                /\ proj_obj_cs_get_axis_count(valueOf(Memory, res.val)) = n

\* PJ_OBJ_CATEGORY of an object
categoryOf(o) ==
    CASE dynamic_cast("Ellipsoid", o) -> PJ_OBJ_CATEGORY_ELLIPSOID
      [] dynamic_cast("PrimeMeridian", o) -> PJ_OBJ_CATEGORY_PRIME_MERIDIAN
      [] dynamic_cast("Datum", o) -> PJ_OBJ_CATEGORY_DATUM
      [] dynamic_cast("CRS", o) -> PJ_OBJ_CATEGORY_CRS
      [] dynamic_cast("CoordinateOperation", o) -> PJ_OBJ_CATEGORY_COORDINATE_OPERATION
      [] OTHER -> -1

\* C27 as stated: every handle wraps an object, and the handle that
\* proj_obj_create_from_database returns, for every value of category, is
\* on an object of the category asked for
C27_HandleWrapsObjectOfCategory ==
    /\ \A h \in liveHandles : heap[h].obj # 0
    /\ (res.fn = "proj_obj_create_from_database" /\ ~res.null /\ res.ints # <<>>) =>
            /\ heap[res.val].obj # 0
            /\ categoryOf(valueOf(Memory, res.val)) = res.ints[1]

\* for the categories that have a case, the handle returned is on an object
\* of the category asked for, and every handle on a null object comes from a
\* call with another category
HandleWrapsObjectOfHandledCategory ==
    (res.fn = "proj_obj_create_from_database" /\ ~res.null
        /\ res.ints # <<>> /\ res.ints[1] \in CategoriesHandled) =>
            /\ heap[res.val].obj # 0
            /\ categoryOf(valueOf(Memory, res.val)) = res.ints[1]

\* the last call was fn on the handle of a live object
InspectedBy(fn) == res.fn = fn /\ res.n \in liveHandles

\* C28: every index from 0 below proj_coordoperation_get_param_count, and
\* every index that proj_coordoperation_get_param_index returns that is not
\* negative, is accepted by proj_coordoperation_get_param and designates the
\* formal parameter and the value at that position; for any other index
\* proj_coordoperation_get_param returns FALSE and writes no output
C28_ParameterIndexingConsistent ==
    /\ InspectedBy("proj_coordoperation_get_param") =>
        LET op == valueOf(Memory, res.n)
            index == res.ints[1]
        IN IF 0 <= index /\ index < proj_coordoperation_get_param_count(op)
           THEN /\ res.val = 1
                /\ res.str = methodParameters(op)[index + 1]
                /\ LET value == parameterValues(op)[index + 1]
                   IN /\ value.type = "MEASURE" =>
                            (res.ints = <<index, value.value, value.factor>> /\ res.opt = "")
                      /\ value.type = "FILENAME" =>
                            (res.ints = <<index, 0, 0>> /\ res.opt = value.file)
           ELSE /\ res.val = 0
                /\ res.str = "unwritten" /\ res.opt = "unwritten" /\ res.ints = <<index>>
    /\ (InspectedBy("proj_coordoperation_get_param_index") /\ res.val >= 0) =>
        LET op == valueOf(Memory, res.n)
            out == proj_coordoperation_get_param(op, res.val)
        IN /\ res.val < proj_coordoperation_get_param_count(op)
           /\ out.ret = 1
           /\ isEquivalentName(out.name, res.str)

\* a parameter found by a name written differently, and the value of a
\* parameter that is not the first
C28_Witness ==
    \/ /\ InspectedBy("proj_coordoperation_get_param_index")
       /\ res.val = 2 /\ res.str = "Z-Axis Translation"
    \/ /\ InspectedBy("proj_coordoperation_get_param")
       /\ res.val = 1 /\ res.ints[1] = 2

\* C29: cpp_context is null or a live projCppContext after every call; a
\* proj_context_set_database_path that fails returns FALSE and leaves it
\* null, whatever it was; a database access that finds it null opens the
\* default database, and leaves it null when that fails
C29_CppContextNullOrLive ==
    [][/\ cpp_context' \in {"null", "open"}
       /\ (res'.fn = "proj_context_set_database_path" /\ res'.val = 0)
            => cpp_context' = "null"
       /\ (res'.fn = "proj_uom_get_info_from_database" /\ cpp_context = "null")
            => cpp_context' = (IF dbOpenable THEN "open" ELSE "null")]_vars

\* proj_context_set_database_path has failed on a file that cannot be
\* opened, after a database context that had given a unit name was destroyed
C29_Witness ==
    /\ res.fn = "proj_context_set_database_path"
    /\ res.val = 0 /\ res.n = 1
    /\ dbOpenable
    /\ held.text # "" /\ ~held.valid
    /\ cpp_context = "null"

============================================================================
